---- MODULE Spec2Model ----
\* PyHeapProfiler: the heap dump store (models/heap_dump.py), the progress
\* worker (utils/workers.py) and the main controller / main window handlers
\* that load, compare and filter dumps.
EXTENDS Integers, Sequences, FiniteSets, TLC

\* ---------------------------------------------------------------------
\* Bounds
\* ---------------------------------------------------------------------
\* largest object size that occurs in a dump file
MaxSize == 2
\* largest number of object slots (type, id) one dump file fills
MaxObjs == 2

\* ---------------------------------------------------------------------
\* JSON values as orjson.loads returns them
\* ---------------------------------------------------------------------
\* a JSON number
JNum(n) == [t |-> "num", n |-> n]
\* a JSON string
JStr(s) == [t |-> "str", s |-> s]
\* a JSON array: the representative of every value that is not a mapping
JList == [t |-> "list"]
\* a JSON object, i.e. a Python dict; m is the key -> value function
JDict(m) == [t |-> "dict", m |-> m]
\* the dict {}
EmptyMap == [k \in {} |-> 0]
\* isinstance(v, dict)
IsDict(v) == v.t = "dict"
\* isinstance(v, (int, float))
IsNum(v) == v.t = "num"

\* object type names and object ids of the dump files, in the order in
\* which a file lists them (Python dicts iterate in insertion order)
TypeOrder == <<"Foo", "Bar">>
IdOrder == <<"1", "2", "3", "12">>
Types == {TypeOrder[i] : i \in 1..Len(TypeOrder)}
Ids == {IdOrder[i] : i \in 1..Len(IdOrder)}
\* a type name that no dump file contains
NoSuchType == "Baz"

\* str(x): the characters of the strings the model uses
Chars(s) ==
    CASE s = "1" -> <<"1">>
      [] s = "2" -> <<"2">>
      [] s = "3" -> <<"3">>
      [] s = "12" -> <<"1", "2">>
      [] s = "a" -> <<"a">>
      [] s = "ab" -> <<"a", "b">>
      [] s = "x" -> <<"x">>
      [] s = "" -> <<>>
      [] OTHER -> <<s>>

\* the keys of dict m in file order
RECURSIVE KeysIn(_, _)
KeysIn(order, dom) ==
    IF order = <<>> THEN <<>>
    ELSE IF Head(order) \in dom
         THEN <<Head(order)>> \o KeysIn(Tail(order), dom)
         ELSE KeysIn(Tail(order), dom)

\* m.items() of the top-level dict / of a per-type dict
TypeKeys(m) == KeysIn(TypeOrder, DOMAIN m)
IdKeys(m) == KeysIn(IdOrder, DOMAIN m)

\* a RawObject record {"size": ..., "attr": {...}} with optional fields
Obj(fields) == JDict(fields)
ObjSized(sz) == Obj([k \in {"size"} |-> sz])
ObjNoSize == Obj(EmptyMap)
ObjAttr(sz, name, val) ==
    Obj([k \in {"size", "attr"} |->
            IF k = "size" THEN sz ELSE JDict([a \in {name} |-> val])])

\* ---------------------------------------------------------------------
\* The store: HeapDumpModel
\* ---------------------------------------------------------------------
\* HeapDumpModel.__init__
NewStore ==
    [data |-> JDict(EmptyMap),
     total_objects |-> 0,
     total_size |-> 0,
     processed_data |-> EmptyMap]

\* the outcome of running a piece of code on a store: the store it leaves
\* and the exception it raised ("none" when it returned)
Ran(st, exc) == [store |-> st, exc |-> exc]

\* HeapDumpModel.validate_dump_structure, the loop over the objects of one
\* type: the first object that is not a dict raises; a missing or
\* non-numeric size only logs a warning
RECURSIVE validate_objects(_, _, _)
validate_objects(obj_type, objs, ids) ==
    IF ids = <<>> THEN [exc |-> "none", warnings |-> {}]
    ELSE LET obj_id == Head(ids)
             obj_data == objs[obj_id]
         IN IF ~IsDict(obj_data)
            THEN [exc |-> "HeapDumpValidationError", warnings |-> {}]
            ELSE LET w == IF "size" \notin DOMAIN obj_data.m
                          THEN {<<obj_type, obj_id, "missing size">>}
                          ELSE IF ~IsNum(obj_data.m["size"])
                               THEN {<<obj_type, obj_id, "non-numeric size">>}
                               ELSE {}
                     rest == validate_objects(obj_type, objs, Tail(ids))
                 IN [exc |-> rest.exc, warnings |-> w \cup rest.warnings]

\* HeapDumpModel.validate_dump_structure, the loop over the types
RECURSIVE validate_types(_, _)
validate_types(d, types) ==
    IF types = <<>> THEN [exc |-> "none", warnings |-> {}]
    ELSE LET obj_type == Head(types)
             objs == d[obj_type]
         IN IF ~IsDict(objs)
            THEN [exc |-> "HeapDumpValidationError", warnings |-> {}]
            ELSE LET here == validate_objects(obj_type, objs.m, IdKeys(objs.m))
                 IN IF here.exc # "none" THEN here
                    ELSE LET rest == validate_types(d, Tail(types))
                         IN [exc |-> rest.exc,
                             warnings |-> here.warnings \cup rest.warnings]

\* HeapDumpModel.validate_dump_structure on self.data
validate_dump_structure(data) ==
    IF ~IsDict(data)
    THEN [exc |-> "HeapDumpValidationError", warnings |-> {}]
    ELSE IF data.m = EmptyMap
         THEN [exc |-> "HeapDumpValidationError", warnings |-> {}]
         ELSE validate_types(data.m, TypeKeys(data.m))

\* obj.get('size', 0)
GetSize(obj) == IF "size" \in DOMAIN obj.m THEN obj.m["size"] ELSE JNum(0)

\* sum(obj.get('size', 0) for obj in objs.values()): the first object that
\* is not a dict raises AttributeError, the first size that is not a number
\* raises TypeError (0 + "x")
RECURSIVE sum_sizes(_, _)
sum_sizes(objs, ids) ==
    IF ids = <<>> THEN [exc |-> "none", total |-> 0]
    ELSE LET obj == objs[Head(ids)]
         IN IF ~IsDict(obj) THEN [exc |-> "AttributeError", total |-> 0]
            ELSE IF ~IsNum(GetSize(obj)) THEN [exc |-> "TypeError", total |-> 0]
            ELSE LET rest == sum_sizes(objs, Tail(ids))
                 IN [exc |-> rest.exc, total |-> GetSize(obj).n + rest.total]

\* process_reset that leaves the two grand totals as they are
process_reset_keeping_totals(st) ==
    [st EXCEPT !.processed_data = EmptyMap]

\* HeapDumpModel.process_data, the three resets before the loop
process_reset(st) ==
    [st EXCEPT !.processed_data = EmptyMap,
               !.total_objects = 0,
               !.total_size = 0]

\* process_type with the grand total assigned where the code adds to it
process_type_total_assigned(st, obj_type) ==
    LET objs == st.data.m[obj_type]
    IN IF ~IsDict(objs) THEN Ran(st, "AttributeError")
       ELSE LET num_objs == Cardinality(DOMAIN objs.m)
                size == sum_sizes(objs.m, IdKeys(objs.m))
                entry == [num_objects |-> num_objs,
                          total_size |-> size.total,
                          objects |-> objs.m]
            IN IF size.exc # "none" THEN Ran(st, size.exc)
               ELSE Ran([st EXCEPT
                           !.processed_data =
                               [k \in DOMAIN st.processed_data \cup {obj_type} |->
                                   IF k = obj_type THEN entry
                                   ELSE st.processed_data[k]],
                           !.total_objects = st.total_objects + num_objs,
                           !.total_size = size.total],
                        "none")

\* HeapDumpModel.process_data, one iteration of the loop over the types
process_type(st, obj_type) ==
    LET objs == st.data.m[obj_type]
    IN IF ~IsDict(objs) THEN Ran(st, "AttributeError")
       ELSE LET num_objs == Cardinality(DOMAIN objs.m)
                size == sum_sizes(objs.m, IdKeys(objs.m))
                entry == [num_objects |-> num_objs,
                          total_size |-> size.total,
                          objects |-> objs.m]
            IN IF size.exc # "none" THEN Ran(st, size.exc)
               ELSE Ran([st EXCEPT
                           !.processed_data =
                               [k \in DOMAIN st.processed_data \cup {obj_type} |->
                                   IF k = obj_type THEN entry
                                   ELSE st.processed_data[k]],
                           !.total_objects = st.total_objects + num_objs,
                           !.total_size = st.total_size + size.total],
                        "none")

\* HeapDumpModel.process_data, the loop over the remaining types
RECURSIVE process_types(_, _)
process_types(st, types) ==
    IF types = <<>> THEN Ran(st, "none")
    ELSE LET r == process_type(st, Head(types))
         IN IF r.exc # "none" THEN r
            ELSE process_types(r.store, Tail(types))

\* HeapDumpModel.process_data
process_data(st) ==
    LET st0 == process_reset(st)
    IN IF ~IsDict(st0.data) THEN Ran(st0, "AttributeError")
       ELSE process_types(st0, TypeKeys(st0.data.m))

\* ---------------------------------------------------------------------
\* Comparison, filters and search of HeapDumpModel
\* ---------------------------------------------------------------------
\* dict.get(key, default)
DictGet(m, key, default) == IF key \in DOMAIN m THEN m[key] ELSE default

\* the dict m restricted to the keys in keys
Restrict(m, keys) == [k \in DOMAIN m \cap keys |-> m[k]]

\* the quotient n / d as Python's true division gives it, kept exact
Frac(n, d) == [num |-> n, den |-> d]

\* the default {'num_objects': 0, 'total_size': 0, 'objects': {}}
ZeroAggregate == [num_objects |-> 0, total_size |-> 0, objects |-> EmptyMap]

\* the entry with a size_change that only counts growth
compare_entry_growth_only(data, other_data) ==
    LET num_new == other_data.num_objects - data.num_objects
        num_deleted == data.num_objects - other_data.num_objects
        size_change == IF other_data.total_size > data.total_size
                       THEN other_data.total_size - data.total_size ELSE 0
    IN [num_objects_main |-> data.num_objects,
        num_objects_other |-> other_data.num_objects,
        num_new_objects |-> IF num_new > 0 THEN num_new ELSE 0,
        num_deleted_objects |-> IF num_deleted > 0 THEN num_deleted ELSE 0,
        total_size_main |-> data.total_size,
        total_size_other |-> other_data.total_size,
        size_change |-> size_change,
        size_percent_change |->
            IF data.total_size # 0
            THEN Frac(size_change * 100, data.total_size) ELSE Frac(0, 1)]

\* the entry with the division guarded by the other side's total
compare_entry_other_guard(data, other_data) ==
    LET num_new == other_data.num_objects - data.num_objects
        num_deleted == data.num_objects - other_data.num_objects
        size_change == other_data.total_size - data.total_size
    IN [num_objects_main |-> data.num_objects,
        num_objects_other |-> other_data.num_objects,
        num_new_objects |-> IF num_new > 0 THEN num_new ELSE 0,
        num_deleted_objects |-> IF num_deleted > 0 THEN num_deleted ELSE 0,
        total_size_main |-> data.total_size,
        total_size_other |-> other_data.total_size,
        size_change |-> size_change,
        size_percent_change |->
            IF other_data.total_size # 0
            THEN Frac(size_change * 100, data.total_size) ELSE Frac(0, 1)]

\* compare_entry that takes the percentage of the other store's total size
compare_entry_percent_of_other(data, other_data) ==
    LET num_new == other_data.num_objects - data.num_objects
        num_deleted == data.num_objects - other_data.num_objects
        size_change == other_data.total_size - data.total_size
    IN [num_objects_main |-> data.num_objects,
        num_objects_other |-> other_data.num_objects,
        num_new_objects |-> IF num_new > 0 THEN num_new ELSE 0,
        num_deleted_objects |-> IF num_deleted > 0 THEN num_deleted ELSE 0,
        total_size_main |-> data.total_size,
        total_size_other |-> other_data.total_size,
        size_change |-> size_change,
        size_percent_change |->
            IF other_data.total_size # 0
            THEN Frac(size_change * 100, other_data.total_size)
            ELSE Frac(0, 1)]

\* HeapDumpModel.compare_with, the body of the loop: the entry of one type
compare_entry(data, other_data) ==
    LET num_objects_main == data.num_objects
        num_objects_other == other_data.num_objects
        num_new == num_objects_other - num_objects_main
        num_deleted == num_objects_main - num_objects_other
        total_size_main == data.total_size
        total_size_other == other_data.total_size
        size_change == total_size_other - total_size_main
    IN [num_objects_main |-> num_objects_main,
        num_objects_other |-> num_objects_other,
        num_new_objects |-> IF num_new > 0 THEN num_new ELSE 0,
        num_deleted_objects |-> IF num_deleted > 0 THEN num_deleted ELSE 0,
        total_size_main |-> total_size_main,
        total_size_other |-> total_size_other,
        size_change |-> size_change,
        size_percent_change |->
            IF total_size_main # 0
            THEN Frac(size_change * 100, total_size_main)
            ELSE Frac(0, 1)]

\* compare_with that walks the types of the main store only
compare_with_main_types(self, other_dump) ==
    [obj_type \in DOMAIN self.processed_data |->
        compare_entry(DictGet(self.processed_data, obj_type, ZeroAggregate),
                      DictGet(other_dump.processed_data, obj_type, ZeroAggregate))]

\* HeapDumpModel.compare_with
compare_with(self, other_dump) ==
    [obj_type \in DOMAIN self.processed_data \cup DOMAIN other_dump.processed_data |->
        compare_entry(DictGet(self.processed_data, obj_type, ZeroAggregate),
                      DictGet(other_dump.processed_data, obj_type, ZeroAggregate))]

\* self.processed_data.get(obj_type, {}).get('objects', {})
ObjectsOf(self, obj_type) ==
    IF obj_type \in DOMAIN self.processed_data
    THEN self.processed_data[obj_type].objects
    ELSE EmptyMap

\* get_object_statuses that compares the sizes of the two records only
get_object_statuses_by_size(self, obj_type, other_dump) ==
    LET current_objects == ObjectsOf(self, obj_type)
        other_objects == ObjectsOf(other_dump, obj_type)
    IN [obj_id \in DOMAIN current_objects \cup DOMAIN other_objects |->
          IF obj_id \in DOMAIN current_objects /\ obj_id \in DOMAIN other_objects
          THEN IF GetSize(current_objects[obj_id]) # GetSize(other_objects[obj_id])
               THEN "Modified" ELSE "Old"
          ELSE IF obj_id \in DOMAIN current_objects THEN "Deleted"
          ELSE "New"]

\* get_object_statuses with the two one-sided statuses the other way round
get_object_statuses_reversed(self, obj_type, other_dump) ==
    LET current_objects == ObjectsOf(self, obj_type)
        other_objects == ObjectsOf(other_dump, obj_type)
    IN [obj_id \in DOMAIN current_objects \cup DOMAIN other_objects |->
          IF obj_id \in DOMAIN current_objects /\ obj_id \in DOMAIN other_objects
          THEN IF current_objects[obj_id] # other_objects[obj_id]
               THEN "Modified" ELSE "Old"
          ELSE IF obj_id \in DOMAIN current_objects THEN "New"
          ELSE "Deleted"]

\* get_object_statuses that walks the ids of the main store only
get_object_statuses_main_ids(self, obj_type, other_dump) ==
    LET current_objects == ObjectsOf(self, obj_type)
        other_objects == ObjectsOf(other_dump, obj_type)
    IN [obj_id \in DOMAIN current_objects |->
          IF obj_id \in DOMAIN other_objects
          THEN IF current_objects[obj_id] # other_objects[obj_id]
               THEN "Modified" ELSE "Old"
          ELSE "Deleted"]

\* HeapDumpModel.get_object_statuses
get_object_statuses(self, obj_type, other_dump) ==
    LET current_objects == ObjectsOf(self, obj_type)
        other_objects == ObjectsOf(other_dump, obj_type)
    IN [obj_id \in DOMAIN current_objects \cup DOMAIN other_objects |->
          IF obj_id \in DOMAIN current_objects /\ obj_id \in DOMAIN other_objects
          THEN IF current_objects[obj_id] # other_objects[obj_id]
               THEN "Modified" ELSE "Old"
          ELSE IF obj_id \in DOMAIN current_objects THEN "Deleted"
          ELSE "New"]

\* an optional integer argument: None, or the integer n
None == [some |-> FALSE, n |-> 0]
Some(n) == [some |-> TRUE, n |-> n]

\* filter_by_size that leaves out the types whose size is one of the bounds
filter_by_size_exclusive(self, min_size, max_size) ==
    [obj_type \in {t \in DOMAIN self.processed_data :
                     /\ ~(min_size.some /\ self.processed_data[t].total_size <= min_size.n)
                     /\ ~(max_size.some /\ self.processed_data[t].total_size >= max_size.n)} |->
        self.processed_data[obj_type]]

\* filter_by_size that returns the aggregates without their objects
filter_by_size_without_objects(self, min_size, max_size) ==
    [obj_type \in {t \in DOMAIN self.processed_data :
                     /\ ~(min_size.some /\ self.processed_data[t].total_size < min_size.n)
                     /\ ~(max_size.some /\ self.processed_data[t].total_size > max_size.n)} |->
        [self.processed_data[obj_type] EXCEPT !.objects = EmptyMap]]

\* HeapDumpModel.filter_by_size
filter_by_size(self, min_size, max_size) ==
    [obj_type \in {t \in DOMAIN self.processed_data :
                     /\ ~(min_size.some /\ self.processed_data[t].total_size < min_size.n)
                     /\ ~(max_size.some /\ self.processed_data[t].total_size > max_size.n)} |->
        self.processed_data[obj_type]]

\* x in lst, for a list lst
InList(x, lst) == \E i \in 1..Len(lst) : lst[i] = x

\* filter_by_type that looks at the first name of the list only
filter_by_type_first_only(self, obj_types) ==
    [obj_type \in {t \in DOMAIN self.processed_data :
                     obj_types # <<>> /\ t = Head(obj_types)} |->
        self.processed_data[obj_type]]

\* HeapDumpModel.filter_by_type
filter_by_type(self, obj_types) ==
    [obj_type \in {t \in DOMAIN self.processed_data : InList(t, obj_types)} |->
        self.processed_data[obj_type]]

\* the decimal digits of a number >= 0
RECURSIVE Digits(_)
Digits(n) ==
    LET d == <<"0", "1", "2", "3", "4", "5", "6", "7", "8", "9">>
    IN IF n < 10 THEN <<d[n + 1]>> ELSE Digits(n \div 10) \o <<d[(n % 10) + 1]>>

\* str(v) of an attribute value
PyStr(v) ==
    IF v.t = "str" THEN Chars(v.s)
    ELSE IF v.t = "num"
         THEN IF v.n < 0 THEN <<"-">> \o Digits(-v.n) ELSE Digits(v.n)
         ELSE <<"[", "]">>

\* sub in s, for two strings given by their characters
IsSubstr(sub, s) ==
    \E i \in 0..(Len(s) - Len(sub)) : SubSeq(s, i + 1, i + Len(sub)) = sub

\* search_id and search_id not in str(obj_id) is false
IdMatches(obj_id, search_id) ==
    ~(search_id # "" /\ ~IsSubstr(Chars(search_id), Chars(obj_id)))

\* attrs.values() of _search_in_type raises: the attribute search is made
\* on an object whose attr is not a mapping
AttrRaises(obj_id, obj_data, search_id, search_attr_value) ==
    /\ search_attr_value # ""
    /\ IdMatches(obj_id, search_id)
    /\ "attr" \in DOMAIN obj_data.m
    /\ ~IsDict(obj_data.m["attr"])

\* the search predicate of _search_in_type on one object
Matches(obj_id, obj_data, search_id, search_attr_value) ==
    LET idOk == IdMatches(obj_id, search_id)
        attrs == IF "attr" \in DOMAIN obj_data.m /\ IsDict(obj_data.m["attr"])
                 THEN obj_data.m["attr"].m
                 ELSE EmptyMap
        found == \E a \in DOMAIN attrs :
                    IsSubstr(Chars(search_attr_value), PyStr(attrs[a]))
    IN IF search_attr_value # "" /\ idOk THEN found ELSE idOk

\* what a search returns: the exception that ended it and, without one, its
\* value
Searched(exc, value) == [exc |-> exc, value |-> value]

\* HeapDumpModel._search_in_type
search_in_type(self, obj_type, search_id, search_attr_value) ==
    LET objects == ObjectsOf(self, obj_type)
    IN IF \E i \in DOMAIN objects :
             AttrRaises(i, objects[i], search_id, search_attr_value)
       THEN Searched("AttributeError", EmptyMap)
       ELSE Searched("none",
                [obj_id \in {i \in DOMAIN objects :
                      Matches(i, objects[i], search_id, search_attr_value)} |->
                   objects[obj_id]])

\* sum(o.get('size', 0) for o in objs.values()) over objects that loaded
SizesOf(objs) == sum_sizes(objs, IdKeys(objs)).total

\* results.update(...) over the types in file order: a later type's object
\* replaces an earlier one with the same id
RECURSIVE search_all(_, _, _, _)
search_all(self, types, search_id, search_attr_value) ==
    IF types = <<>> THEN Searched("none", EmptyMap)
    ELSE LET n == Len(types)
             before == search_all(self, SubSeq(types, 1, n - 1),
                                  search_id, search_attr_value)
             here == search_in_type(self, types[n], search_id, search_attr_value)
         IN IF before.exc # "none" THEN before
            ELSE IF here.exc # "none" THEN here
            ELSE Searched("none",
                    [i \in DOMAIN before.value \cup DOMAIN here.value |->
                       IF i \in DOMAIN here.value THEN here.value[i]
                       ELSE before.value[i]])

\* the aggregate search_objects builds over the objects it found
search_aggregate(obj_type, objs) ==
    [t \in {obj_type} |->
        [num_objects |-> Cardinality(DOMAIN objs),
         total_size |-> SizesOf(objs),
         objects |-> objs]]

\* HeapDumpModel.search_objects
search_objects(self, obj_type, search_id, search_attr_value, search_in_types) ==
    IF search_in_types
    THEN LET results == search_all(self, TypeKeys(self.processed_data),
                                   search_id, search_attr_value)
         IN IF results.exc # "none" THEN results
            ELSE Searched("none", search_aggregate(obj_type, results.value))
    ELSE LET filtered_objs == search_in_type(self, obj_type, search_id,
                                             search_attr_value)
         IN IF filtered_objs.exc # "none" THEN filtered_objs
            ELSE IF filtered_objs.value # EmptyMap
            THEN Searched("none", search_aggregate(obj_type, filtered_objs.value))
            ELSE Searched("none", EmptyMap)

\* the chain deciding on the first status of the list that it knows
StatusIncludes_first_listed(data, status_filter) ==
    IF InList("New", status_filter) THEN data.num_new_objects > 0
    ELSE IF InList("Deleted", status_filter) THEN data.num_deleted_objects > 0
    ELSE IF InList("Old", status_filter)
         THEN /\ data.num_objects_main = data.num_objects_other
              /\ data.num_new_objects = 0
              /\ data.num_deleted_objects = 0
    ELSE IF InList("Modified", status_filter)
         THEN data.num_objects_other # data.num_objects_main
    ELSE FALSE

\* HeapDumpModel.filter_comparison_by_status, the if / elif chain
StatusIncludes(data, status_filter) ==
    IF InList("New", status_filter) /\ data.num_new_objects > 0 THEN TRUE
    ELSE IF InList("Deleted", status_filter) /\ data.num_deleted_objects > 0 THEN TRUE
    ELSE IF /\ InList("Old", status_filter)
            /\ data.num_objects_main = data.num_objects_other
            /\ data.num_new_objects = 0
            /\ data.num_deleted_objects = 0 THEN TRUE
    ELSE IF /\ InList("Modified", status_filter)
            /\ data.num_objects_other # data.num_objects_main THEN TRUE
    ELSE FALSE

\* HeapDumpModel.filter_comparison_by_status
filter_comparison_by_status(comparison_result, status_filter) ==
    [obj_type \in {t \in DOMAIN comparison_result :
                     \/ StatusIncludes(comparison_result[t], status_filter)
                     \/ status_filter = <<>>} |->
        comparison_result[obj_type]]

\* ---------------------------------------------------------------------
\* Dump files
\* ---------------------------------------------------------------------
\* the path does not resolve: open() raises FileNotFoundError
Missing == [k |-> "missing"]
\* the content is not JSON: orjson.loads raises JSONDecodeError
BadJson == [k |-> "badjson"]
\* a file whose content parses to the JSON value v
Content(v) == [k |-> "json", v |-> v]

\* every dict with keys among ids and values among vals
MapsOver(ids, vals) == UNION {[S -> vals] : S \in SUBSET ids}

\* the number of (type, id) slots a parsed dump fills
CountObjs(d) ==
    Cardinality({p \in Types \X Ids :
                    /\ p[1] \in DOMAIN d.m
                    /\ IsDict(d.m[p[1]])
                    /\ p[2] \in DOMAIN d.m[p[1]].m})

\* every JSON object with type names among types whose values are per-type
\* dicts over ids and objVals, or one of the values junk, with at most
\* MaxObjs objects in all
DumpsOver(types, ids, objVals, junk) ==
    {d \in {JDict(m) : m \in MapsOver(types,
                         junk \cup {JDict(o) : o \in MapsOver(ids, objVals)})} :
        CountObjs(d) <= MaxObjs}

\* the sizes of the objects in the files of the load specification: a
\* string where a number is expected, and the numbers 1..MaxSize
LoadSizes == {JStr("x")} \cup {JNum(n) : n \in 1..MaxSize}
\* the object records of those files
LoadObjects == {ObjNoSize} \cup {ObjSized(sz) : sz \in LoadSizes}
\* what the store's file_path can hold when the store is constructed
LoadFiles ==
    {Missing, BadJson, Content(JList)} \cup
    {Content(d) : d \in DumpsOver(Types, {"1", "2"},
                                  LoadObjects \cup {JList}, {JList})}
\* what the file can be replaced by between two loads of the store
Rewrites ==
    {Missing,
     Content(JDict([t \in {"Foo"} |-> JList])),
     Content(JDict([t \in {"Bar"} |-> JDict([i \in {"1"} |-> ObjSized(JNum(1))])]))}

\* every structural invariant of RawDump but non-emptiness: the top level,
\* every per-type value and every per-object value is a mapping
WellShaped(d) ==
    /\ IsDict(d)
    /\ \A t \in DOMAIN d.m :
          /\ IsDict(d.m[t])
          /\ \A i \in DOMAIN d.m[t].m : IsDict(d.m[t].m[i])

\* ---------------------------------------------------------------------
\* The three load paths
\* ---------------------------------------------------------------------
\* what one run of a load left behind: the store, the exception that ended
\* it, whether process_data was started and on which data, and the
\* warnings validation logged
Loaded(st, exc, started, on, warnings) ==
    [store |-> st, exc |-> exc, started |-> started, on |-> on,
     warnings |-> warnings]

\* the body shared by HeapDumpModel.load_data and ProgressWorker.load_data:
\* open and read, self.data = orjson.loads(...), validate_dump_structure(),
\* process_data(); jsonError is the exception a parse failure ends with
read_validate_process(st, f, jsonError) ==
    IF f.k = "missing"
    THEN Loaded(st, "FileNotFoundError", FALSE, st.data, {})
    ELSE IF f.k = "badjson"
    THEN Loaded(st, jsonError, FALSE, st.data, {})
    ELSE LET st1 == [st EXCEPT !.data = f.v]
             v == validate_dump_structure(st1.data)
         IN IF v.exc # "none"
            THEN Loaded(st1, v.exc, FALSE, st.data, v.warnings)
            ELSE LET p == process_data(st1)
                 IN Loaded(p.store, p.exc, TRUE, st1.data, v.warnings)

\* HeapDumpModel.load_data: a JSONDecodeError is re-raised as ValueError,
\* every other exception as it is
load_data(st, f) == read_validate_process(st, f, "ValueError")

\* ProgressWorker.load_data up to the except clause
worker_load_data(st, f) == read_validate_process(st, f, "JSONDecodeError")

\* ---------------------------------------------------------------------
\* State
\* ---------------------------------------------------------------------
VARIABLES
    file,            \* what the store's file_path holds on disk
    store,           \* the HeapDumpModel: data, processed_data and totals
    loading_thread,  \* HeapDumpModel._loading_thread is not None
    thread,          \* the thread load_data_async started last
    last,            \* history of the last load of the store
    current_dump,    \* MainWindow.current_dump: None or a HeapDumpModel
    comparison_dump, \* MainWindow.comparison_dump: None or a HeapDumpModel
    buttons,         \* which buttons of the main window are enabled
    table,           \* what populate_table put into the main table
    lastv,           \* history of the last handler of the main window
    result,          \* the value the last query on the two stores returned
    threads,         \* every thread load_data_async started, when loads overlap
    progress,        \* the load that reports its progress, and its reports
    details          \* the ObjectDetailsWindow: objects, loaded_rows, table rows

loadVars == <<file, store, loading_thread, thread, last, threads, progress>>
viewVars == <<current_dump, comparison_dump, buttons, table, lastv, details>>
vars == <<file, store, loading_thread, thread, last,
          current_dump, comparison_dump, buttons, table, lastv, result,
          threads, progress, details>>

\* the reference None
NoneRef == [is |-> "None"]
\* a reference to the HeapDumpModel with the fields st
Ref(st) == [is |-> "HeapDumpModel", st |-> st]
\* bool(ref): None is falsy, a HeapDumpModel object is truthy
Truthy(ref) == ref.is # "None"

\* MainWindow.setup_ui, setup_menu, setup_toolbar: only the load button
\* starts enabled; actions stands for the compare, export and charts
\* actions of the menu and the toolbar, progress for the progress bar
InitButtons ==
    [load |-> TRUE, compare |-> FALSE, chart |-> FALSE, export |-> FALSE,
     actions |-> FALSE, progress |-> FALSE]
\* the empty main table
NoTable ==
    [comparison |-> FALSE, rows |-> EmptyMap, combo |-> {},
     total_objects |-> 0, total_size |-> 0]
\* no handler has run
NoHandler == [handler |-> "none"]
\* no ObjectDetailsWindow is open
NoDetails == [open |-> FALSE]
\* no load reports its progress
NoProgress == [pc |-> "idle"]
\* no query has been made
NoResult == [op |-> "none"]

\* the main window as MainWindow.__init__ leaves it
ViewInit ==
    /\ current_dump = NoneRef
    /\ comparison_dump = NoneRef
    /\ buttons = InitButtons
    /\ table = NoTable
    /\ lastv = NoHandler
    /\ details = NoDetails


\* no thread has been started yet
NoThread == [pc |-> "none", buf |-> Missing, todo |-> <<>>]
\* Thread.is_alive()
Alive(th) == th.pc \in {"open", "parse", "reset", "types"}

\* history of a store no load has touched: which path the last load took,
\* the file content it read, the store before it, how it ended, what the
\* caller received, whether process_data was started and on which data,
\* and the warnings validation logged
NoLoad ==
    [path |-> "none", input |-> Missing, before |-> NewStore,
     outcome |-> "none", reported |-> "none", started |-> FALSE,
     on |-> NewStore.data, warnings |-> {}]

\* the outcome as history records it
OutcomeOf(exc) == IF exc = "none" THEN "ok" ELSE exc

\* a store by itself, before any load
StoreInit ==
    /\ store = NewStore
    /\ loading_thread = FALSE
    /\ thread = NoThread
    /\ last = NoLoad
    /\ threads = <<>>
    /\ progress = NoProgress

\* a store constructed for a file, and an idle main window
InitLoad ==
    /\ file \in LoadFiles
    /\ StoreInit
    /\ ViewInit
    /\ result = NoResult

\* the caller invokes store.load_data(); the exception, if any, reaches it
LoadData ==
    /\ ~Alive(thread)
    /\ LET r == load_data(store, file)
       IN /\ store' = r.store
          /\ last' = [path |-> "sync", input |-> file, before |-> store,
                      outcome |-> OutcomeOf(r.exc),
                      reported |-> IF r.exc = "none" THEN "returned" ELSE r.exc,
                      started |-> r.started, on |-> r.on,
                      warnings |-> r.warnings]
    /\ UNCHANGED <<file, loading_thread, thread, viewVars, result, threads, progress>>

\* ProgressWorker(store, file_path).load_data(): every exception is caught
\* and turned into the loading_error signal
WorkerLoadData ==
    /\ ~Alive(thread)
    /\ LET r == worker_load_data(store, file)
       IN /\ store' = r.store
          /\ last' = [path |-> "worker", input |-> file, before |-> store,
                      outcome |-> OutcomeOf(r.exc),
                      reported |-> IF r.exc = "none" THEN "loading_finished"
                                   ELSE "loading_error",
                      started |-> r.started, on |-> r.on,
                      warnings |-> r.warnings]
    /\ UNCHANGED <<file, loading_thread, thread, viewVars, result, threads, progress>>

\* HeapDumpModel.load_data_async: start the background thread and return
LoadDataAsync ==
    /\ ~Alive(thread)
    /\ thread' = [pc |-> "open", buf |-> Missing, todo |-> <<>>]
    /\ loading_thread' = TRUE
    /\ last' = [path |-> "async", input |-> Missing, before |-> store,
                outcome |-> "running", reported |-> "pending",
                started |-> FALSE, on |-> store.data, warnings |-> {}]
    /\ UNCHANGED <<file, store, viewVars, result, threads, progress>>

\* the background thread ends with an exception: it goes to the thread's
\* excepthook, nothing is stored on the model
Dies(exc) ==
    /\ thread' = [thread EXCEPT !.pc = "dead"]
    /\ last' = [last EXCEPT !.outcome = exc]

\* _load_in_background: open the file and read it chunk by chunk
BgRead ==
    /\ thread.pc = "open"
    /\ IF file = Missing
       THEN Dies("FileNotFoundError")
       ELSE /\ thread' = [thread EXCEPT !.pc = "parse", !.buf = file]
            /\ last' = [last EXCEPT !.input = file]
    /\ UNCHANGED <<file, store, loading_thread, viewVars, result, threads, progress>>

\* _load_in_background: self.data = orjson.loads(json_data)
BgParse ==
    /\ thread.pc = "parse"
    /\ IF thread.buf = BadJson
       THEN Dies("ValueError") /\ store' = store
       ELSE /\ store' = [store EXCEPT !.data = thread.buf.v]
            /\ thread' = [thread EXCEPT !.pc = "reset"]
            /\ last' = last
    /\ UNCHANGED <<file, loading_thread, viewVars, result, threads, progress>>

\* _load_in_background: self.process_data() begins, with no
\* validate_dump_structure() before it
BgProcessReset ==
    /\ thread.pc = "reset"
    /\ store' = process_reset(store)
    /\ IF ~IsDict(store.data)
       THEN /\ thread' = [thread EXCEPT !.pc = "dead"]
            /\ last' = [last EXCEPT !.outcome = "AttributeError",
                                    !.started = TRUE, !.on = store.data]
       ELSE /\ thread' = [thread EXCEPT !.pc = "types",
                                        !.todo = TypeKeys(store.data.m)]
            /\ last' = [last EXCEPT !.started = TRUE, !.on = store.data]
    /\ UNCHANGED <<file, loading_thread, viewVars, result, threads, progress>>

\* _load_in_background: one iteration of process_data's loop
BgProcessType ==
    /\ thread.pc = "types"
    /\ thread.todo # <<>>
    /\ LET r == process_type(store, Head(thread.todo))
       IN /\ store' = r.store
          /\ IF r.exc # "none"
             THEN Dies(r.exc)
             ELSE /\ thread' = [thread EXCEPT !.todo = Tail(thread.todo)]
                  /\ last' = last
    /\ UNCHANGED <<file, loading_thread, viewVars, result, threads, progress>>

\* _load_in_background: process_data returned, the last progress report
BgFinish ==
    /\ thread.pc = "types"
    /\ thread.todo = <<>>
    /\ thread' = [thread EXCEPT !.pc = "done"]
    /\ last' = [last EXCEPT !.outcome = "ok"]
    /\ UNCHANGED <<file, store, loading_thread, viewVars, result, threads, progress>>

\* HeapDumpModel.wait_for_loading: join the thread if it is alive, forget
\* it, return None
WaitForLoading ==
    /\ ~Alive(thread)
    /\ loading_thread' = FALSE
    /\ last' = IF last.path = "async" /\ last.reported = "pending"
               THEN [last EXCEPT !.reported = "returned"]
               ELSE last
    /\ UNCHANGED <<file, store, thread, viewVars, result, threads, progress>>

\* the environment replaces, damages or removes the file between two loads
FileChanges ==
    /\ ~Alive(thread)
    /\ file' \in Rewrites \ {file}
    /\ UNCHANGED <<store, loading_thread, thread, last, viewVars, result, threads, progress>>

Next ==
    \/ LoadData
    \/ WorkerLoadData
    \/ LoadDataAsync
    \/ BgRead
    \/ BgParse
    \/ BgProcessReset
    \/ BgProcessType
    \/ BgFinish
    \/ WaitForLoading
    \/ FileChanges

Spec == InitLoad /\ [][Next]_vars

\* ---------------------------------------------------------------------
\* Properties of the load paths
\* ---------------------------------------------------------------------
\* the sum of f[x] over the x of S
RECURSIVE SumOver(_, _)
SumOver(S, f) ==
    IF S = {} THEN 0
    ELSE LET x == CHOOSE y \in S : TRUE
         IN f[x] + SumOver(S \ {x}, f)

\* the size an object record counts with: 0 unless it has a numeric size
SizeOrZero(obj) ==
    IF "size" \in DOMAIN obj.m /\ IsNum(obj.m["size"])
    THEN obj.m["size"].n ELSE 0

\* the size sum of the objects of a per-type dict
SizeSum(objs) == SumOver(DOMAIN objs, [i \in DOMAIN objs |-> SizeOrZero(objs[i])])

\* the last load has ended
Finished == last.outcome \notin {"none", "running"}

\* the fatal kinds of a load: missing file, invalid JSON, invalid structure
FatalKinds ==
    {"FileNotFoundError", "ValueError", "JSONDecodeError",
     "HeapDumpValidationError"}

\* the last load read a file that parsed
ReadJson == Finished /\ last.input.k = "json"

\* C1: after load_data or ProgressWorker.load_data failed with a fatal
\* kind, data, processed_data, total_objects and total_size of the store
\* are what they were before that load started.
C1_FailedLoadIsAtomic ==
    (last.path \in {"sync", "worker"} /\ last.outcome \in FatalKinds)
        => store = last.before

\* C2: on every load path a dump file whose content is {} ends with the
\* validation error; it never completes as a load.
C2_EmptyObjectFailsValidation ==
    (ReadJson /\ last.input.v = JDict(EmptyMap))
        => last.outcome = "HeapDumpValidationError"

\* C3: on every load path process_data is never started on data whose top
\* level, per-type value or per-object value is not a mapping; such data
\* ends the load with HeapDumpValidationError before any aggregation.
C3_ValidationBeforeAggregation ==
    /\ last.started => WellShaped(last.on)
    /\ (ReadJson /\ ~WellShaped(last.input.v))
           => (last.outcome = "HeapDumpValidationError" /\ ~last.started)

\* some object of the dump has no size or a size that is not a number
HasOddSize(d) ==
    \E t \in DOMAIN d.m : \E i \in DOMAIN d.m[t].m :
        \/ "size" \notin DOMAIN d.m[t].m[i].m
        \/ ~IsNum(d.m[t].m[i].m["size"])

\* C4: an object whose size is missing or non-numeric does not fail the
\* load: validation records a warning for it, the load completes, and the
\* object counts in num_objects while adding 0 to its type's total_size and
\* to the grand total_size.
C4_OddSizeCountsAsZero ==
    (/\ last.path \in {"sync", "worker"}
     /\ ReadJson
     /\ WellShaped(last.input.v)
     /\ HasOddSize(last.input.v))
    => LET d == last.input.v.m
       IN /\ last.outcome = "ok"
          /\ \A t \in DOMAIN d : \A i \in DOMAIN d[t].m :
                ("size" \notin DOMAIN d[t].m[i].m \/ ~IsNum(d[t].m[i].m["size"]))
                    => \E w \in last.warnings : w[1] = t /\ w[2] = i
          /\ DOMAIN store.processed_data = DOMAIN d
          /\ \A t \in DOMAIN d :
                /\ store.processed_data[t].num_objects = Cardinality(DOMAIN d[t].m)
                /\ store.processed_data[t].total_size = SizeSum(d[t].m)
          /\ store.total_size = SumOver(DOMAIN d, [t \in DOMAIN d |-> SizeSum(d[t].m)])

\* what a caller holds once wait_for_loading has returned after a
\* background load completed: the plain return and the store
CompletedObservations ==
    {[ret |-> "returned", store |-> process_data([NewStore EXCEPT !.data = f.v]).store] :
        f \in {g \in LoadFiles :
                 /\ g.k = "json"
                 /\ process_data([NewStore EXCEPT !.data = g.v]).exc = "none"}}

\* C5: after load_data_async and wait_for_loading the caller can tell a load
\* that failed from one that completed: what it holds after a failed load
\* is never what it holds after a completed one.
C5_AsyncFailureIsReported ==
    (last.path = "async" /\ last.reported = "returned" /\ last.outcome # "ok")
        => [ret |-> last.reported, store |-> store] \notin CompletedObservations

SlotDump(S) ==
    JDict([t \in {p[1] : p \in S} |->
             JDict([i \in {p[2] : p \in {q \in S : q[1] = t}} |->
                      IF i = "1" THEN ObjSized(JNum(1))
                      ELSE ObjAttr(JNum(MaxSize), "name", JStr("a"))])])

\* the files the user can pick in the dialog or drop on the window
ViewFiles ==
    {Missing, Content(JDict([t \in {"Foo"} |-> JList]))} \cup
    {Content(SlotDump(S)) :
        S \in {T \in SUBSET {<<"Foo", "1">>, <<"Foo", "12">>, <<"Bar", "1">>} :
                 T # {} /\ Cardinality(T) <= MaxObjs}}

\* hide_loading that hides the progress bar and leaves the buttons
hide_loading_progress_only(b, cur) == [b EXCEPT !.progress = FALSE]

\* MainWindow.show_loading
show_loading(b) == [b EXCEPT !.progress = TRUE, !.load = FALSE, !.compare = FALSE]

\* MainWindow.hide_loading, with self.current_dump = cur
hide_loading(b, cur) ==
    IF Truthy(cur)
    THEN [b EXCEPT !.progress = FALSE, !.load = TRUE, !.compare = TRUE,
                   !.chart = TRUE, !.export = TRUE]
    ELSE [b EXCEPT !.progress = FALSE, !.load = TRUE]

\* MainWindow.populate_table(data, comparison) with self.current_dump = cur
\* and self.comparison_dump = cmp; old is the table it replaces
populate_table(data, comparison, cur, cmp, old) ==
    IF ~Truthy(data) THEN old
    ELSE LET both == comparison /\ Truthy(cur) /\ Truthy(cmp)
             comparison_results ==
                 IF both THEN compare_with(cur.st, cmp.st) ELSE EmptyMap
             all_obj_types ==
                 IF both THEN DOMAIN comparison_results
                 ELSE DOMAIN data.st.processed_data
         IN [comparison |-> comparison,
             rows |-> [obj_type \in all_obj_types |->
                         IF both /\ comparison_results # EmptyMap
                         THEN comparison_results[obj_type]
                         ELSE [num_objects |-> data.st.processed_data[obj_type].num_objects,
                               total_size |-> data.st.processed_data[obj_type].total_size]],
             combo |-> IF Truthy(cur) THEN DOMAIN cur.st.processed_data
                       ELSE old.combo,
             total_objects |-> data.st.total_objects,
             total_size |-> data.st.total_size]

\* the history a load handler leaves: its name, the file it was given, how
\* the load ended, and the window before it ran
Handled(name, f, exc) ==
    [handler |-> name, input |-> f, outcome |-> OutcomeOf(exc),
     before_current |-> current_dump,
     before_comparison |-> comparison_dump,
     before_buttons |-> buttons]

\* MainController.handle_load_dump when the dialog returned the file f,
\* and _on_dump_loaded
handle_load_dump(f) ==
        LET r == load_data(NewStore, f)
            cur == Ref(r.store)
            loading == show_loading(buttons)
        IN /\ current_dump' = cur
           /\ IF r.exc = "none"
              THEN /\ table' = populate_table(cur, FALSE, cur, comparison_dump, table)
                   /\ buttons' = [hide_loading(loading, cur) EXCEPT
                                     !.chart = TRUE, !.export = TRUE,
                                     !.compare = TRUE, !.actions = TRUE]
              ELSE /\ table' = table
                   /\ buttons' = hide_loading(loading, cur)
           /\ lastv' = Handled("handle_load_dump", f, r.exc)
           /\ UNCHANGED <<comparison_dump, details, loadVars, result>>

\* the user picks a file in the dialog of handle_load_dump
HandleLoadDump == \E f \in ViewFiles : handle_load_dump(f)

\* MainController.handle_compare_dumps when the dialog returned the file
\* f, and _on_comparison_loaded
handle_compare_dumps(f) ==
        LET r == load_data(NewStore, f)
            cmp == Ref(r.store)
            loading == show_loading(buttons)
        IN /\ comparison_dump' = cmp
           /\ IF r.exc = "none"
              THEN /\ table' = populate_table(current_dump, TRUE, current_dump, cmp, table)
                   /\ buttons' = [hide_loading(loading, current_dump) EXCEPT
                                     !.chart = TRUE, !.export = TRUE]
              ELSE /\ table' = table
                   /\ buttons' = hide_loading(loading, current_dump)
           /\ lastv' = Handled("handle_compare_dumps", f, r.exc)
           /\ UNCHANGED <<current_dump, details, loadVars, result>>

\* the user picks a file in the dialog of handle_compare_dumps, which the
\* compare button and the compare actions open
HandleCompareDumps ==
    /\ buttons.compare \/ buttons.actions
    /\ \E f \in ViewFiles : handle_compare_dumps(f)

\* MainWindow.load_dump_from_path with a dropped file
LoadDumpFromPath ==
    \E f \in ViewFiles :
        LET r == load_data(NewStore, f)
            cur == Ref(r.store)
        IN /\ current_dump' = cur
           /\ IF r.exc = "none"
              THEN /\ table' = populate_table(cur, FALSE, cur, comparison_dump, table)
                   /\ buttons' = [buttons EXCEPT
                                     !.compare = TRUE, !.chart = TRUE,
                                     !.export = TRUE, !.actions = TRUE]
              ELSE /\ table' = table
                   /\ buttons' = buttons
           /\ lastv' = Handled("load_dump_from_path", f, r.exc)
           /\ UNCHANGED <<comparison_dump, details, loadVars, result>>

\* the arguments MainWindow.apply_filters can pass: at most one size bound
\* and one search field are filled in, obj_type is "" for "All Types" or a
\* type of the combo box, a search string is "" when its field is blank,
\* status_filter is [] unless a comparison dump is set
FilterArgs ==
    {a \in [min_size : {None, Some(MaxSize)},
            max_size : {None, Some(1)},
            obj_type : {""} \cup table.combo,
            status_filter : {<<>>, <<"New">>},
            search_id : {"", "2"},
            search_attr : {"", "a"}] :
        /\ ~(a.min_size.some /\ a.max_size.some)
        /\ ~(a.search_id # "" /\ a.search_attr # "")
        /\ ~Truthy(comparison_dump) => a.status_filter = <<>>}

\* MainController.handle_apply_filters up to the table: the filtered_data
\* it builds from self.view.current_dump = cur and comparison_dump = cmp
filtered_data(cur, cmp, a) ==
    LET self == cur.st
        all == self.processed_data
        sized ==
            IF a.min_size.some \/ a.max_size.some
            THEN Restrict(all, DOMAIN filter_by_size(self, a.min_size, a.max_size))
            ELSE all
        typed ==
            IF a.obj_type # "" THEN Restrict(sized, {a.obj_type}) ELSE sized
        found(ot) == search_objects(self, ot, a.search_id, a.search_attr,
                                    FALSE).value
        searched ==
            IF a.search_id # "" \/ a.search_attr # ""
            THEN IF a.obj_type # ""
                 THEN IF found(a.obj_type) # EmptyMap
                      THEN [t \in {a.obj_type} |-> found(a.obj_type)[a.obj_type]]
                      ELSE EmptyMap
                 ELSE [ot \in {t \in DOMAIN typed :
                                 found(t) # EmptyMap /\ t \in DOMAIN found(t)} |->
                          found(ot)[ot]]
            ELSE typed
    IN IF Truthy(cmp)
       THEN LET comparison_results == compare_with(self, cmp.st)
                by_status ==
                    IF a.status_filter # <<>>
                    THEN filter_comparison_by_status(comparison_results,
                                                     a.status_filter)
                    ELSE comparison_results
            IN Restrict(searched, DOMAIN by_status)
       ELSE searched

\* the temporary HeapDumpModel handle_apply_filters hands to populate_table
filtered_dump(fd) ==
    Ref([data |-> JDict(EmptyMap),
         processed_data |-> fd,
         total_objects |-> SumOver(DOMAIN fd, [t \in DOMAIN fd |-> fd[t].num_objects]),
         total_size |-> SumOver(DOMAIN fd, [t \in DOMAIN fd |-> fd[t].total_size])])

\* the exception a search_objects call of handle_apply_filters raises, or
\* "none"
filters_exc(cur, a) ==
    LET self == cur.st
        sized ==
            IF a.min_size.some \/ a.max_size.some
            THEN DOMAIN filter_by_size(self, a.min_size, a.max_size)
            ELSE DOMAIN self.processed_data
        searched ==
            IF a.search_id = "" /\ a.search_attr = "" THEN {}
            ELSE IF a.obj_type # "" THEN {a.obj_type}
            ELSE sized
    IN IF \E ot \in searched :
             search_objects(self, ot, a.search_id, a.search_attr, FALSE).exc # "none"
       THEN "AttributeError"
       ELSE "none"

\* MainController.handle_apply_filters: an exception is shown as an error
\* and leaves the table as it is
HandleApplyFilters ==
    /\ Truthy(current_dump)
    /\ \E a \in FilterArgs :
          LET fd == filtered_data(current_dump, comparison_dump, a)
              exc == filters_exc(current_dump, a)
          IN IF exc = "none"
             THEN /\ table' = populate_table(filtered_dump(fd),
                                             Truthy(comparison_dump),
                                             current_dump, comparison_dump, table)
                  /\ lastv' = [handler |-> "handle_apply_filters", args |-> a,
                               filtered_data |-> fd]
             ELSE /\ table' = table
                  /\ lastv' = [handler |-> "handle_apply_filters_failed",
                               args |-> a, outcome |-> exc]
    /\ UNCHANGED <<current_dump, comparison_dump, buttons, details, loadVars, result>>

\* the main window as it starts
InitView ==
    /\ file = Missing
    /\ StoreInit
    /\ ViewInit
    /\ result = NoResult

NextView ==
    \/ HandleLoadDump
    \/ HandleCompareDumps
    \/ LoadDumpFromPath
    \/ HandleApplyFilters

SpecView == InitView /\ [][NextView]_vars


\* ---------------------------------------------------------------------
\* Two loaded stores and the queries on them
\* ---------------------------------------------------------------------
\* the object records of the dumps that are compared: without size, with
\* the sizes -1..MaxSize, and with an attribute
CmpObjects ==
    {ObjNoSize} \cup {ObjSized(JNum(n)) : n \in (-1)..MaxSize}
        \cup {ObjAttr(JNum(1), "name", JStr("a"))}

\* the dumps that are compared: type Foo with any objects "1" and "12" of
\* CmpObjects, type Bar absent, empty or with the one object "1"
CmpDumps ==
    {JDict(m) : m \in
        {f \in MapsOver(Types,
                 {JDict(o) : o \in MapsOver({"1", "12"}, CmpObjects)}) :
            /\ f # EmptyMap
            /\ "Bar" \in DOMAIN f =>
                  f["Bar"].m \in MapsOver({"1"}, {ObjSized(JNum(1))})}}

\* the store a successful HeapDumpModel(path).load_data() of dump d builds
LoadedStore(d) == load_data(NewStore, Content(d)).store

\* two stores, each loaded from a dump
InitCompare ==
    /\ file = Missing
    /\ StoreInit
    /\ current_dump \in {Ref(LoadedStore(d)) : d \in CmpDumps}
    /\ comparison_dump \in {Ref(LoadedStore(d)) : d \in CmpDumps}
    /\ buttons = InitButtons
    /\ table = NoTable
    /\ lastv = NoHandler
    /\ details = NoDetails
    /\ result = NoResult

\* current_dump.compare_with(comparison_dump)
CompareWith ==
    /\ result' = [op |-> "compare_with",
                  value |-> compare_with(current_dump.st, comparison_dump.st)]
    /\ UNCHANGED <<loadVars, viewVars>>

\* current_dump.get_object_statuses(obj_type, comparison_dump)
GetObjectStatuses ==
    /\ \E obj_type \in Types \cup {NoSuchType} :
          result' = [op |-> "get_object_statuses", obj_type |-> obj_type,
                     value |-> get_object_statuses(current_dump.st, obj_type,
                                                   comparison_dump.st)]
    /\ UNCHANGED <<loadVars, viewVars>>

NextCompare ==
    \/ CompareWith
    \/ GetObjectStatuses

SpecCompare == InitCompare /\ [][NextCompare]_vars

\* the ids of the objects of a type in the raw data of a store
IdsOf(st, t) == IF t \in DOMAIN st.data.m THEN DOMAIN st.data.m[t].m ELSE {}
\* the number of objects of a type in the raw data of a store
CountOf(st, t) == Cardinality(IdsOf(st, t))
\* the size sum of the objects of a type in the raw data of a store
SizeOfType(st, t) == IF t \in DOMAIN st.data.m THEN SizeSum(st.data.m[t].m) ELSE 0
\* two exact quotients are the same number
RatEq(p, q) == p.num * q.den = q.num * p.den
\* max(n, 0)
Pos(n) == IF n > 0 THEN n ELSE 0

\* what C7 says of every entry but its size_percent_change
C7_EntriesButPercent ==
    LET main == current_dump.st
        other == comparison_dump.st
        r == result.value
    IN /\ DOMAIN r = DOMAIN main.data.m \cup DOMAIN other.data.m
       /\ \A t \in DOMAIN r :
             /\ r[t].num_objects_main = CountOf(main, t)
             /\ r[t].num_objects_other = CountOf(other, t)
             /\ r[t].num_new_objects = Pos(CountOf(other, t) - CountOf(main, t))
             /\ r[t].num_deleted_objects = Pos(CountOf(main, t) - CountOf(other, t))
             /\ r[t].total_size_main = SizeOfType(main, t)
             /\ r[t].total_size_other = SizeOfType(other, t)
             /\ r[t].size_change = SizeOfType(other, t) - SizeOfType(main, t)

\* C7 as stated: one ComparisonEntry per type of the union of both stores'
\* types, counts and sizes of a missing side 0, num_new_objects =
\* max(other-main, 0), num_deleted_objects = max(main-other, 0), size_change
\* = other - main, and size_percent_change = size_change / total_size_main
\* * 100 when total_size_main > 0, else 0.
C7_AsStated ==
    result.op = "compare_with" =>
        /\ C7_EntriesButPercent
        /\ \A t \in DOMAIN result.value :
              LET e == result.value[t]
              IN IF e.total_size_main > 0
                 THEN RatEq(e.size_percent_change,
                            Frac(e.size_change * 100, e.total_size_main))
                 ELSE RatEq(e.size_percent_change, Frac(0, 1))

\* C7 amended: as C7, with size_percent_change = size_change /
\* total_size_main * 100 whenever total_size_main is not 0 (also when it is
\* negative), and 0 when it is 0.
C7_ComparisonEntries ==
    result.op = "compare_with" =>
        /\ C7_EntriesButPercent
        /\ \A t \in DOMAIN result.value :
              LET e == result.value[t]
              IN IF e.total_size_main # 0
                 THEN RatEq(e.size_percent_change,
                            Frac(e.size_change * 100, e.total_size_main))
                 ELSE RatEq(e.size_percent_change, Frac(0, 1))

\* a comparison with a type that only the other store has and a type that
\* loses objects, whose main total is negative and whose percentage is not 0
C7_Witness ==
    /\ result.op = "compare_with"
    /\ \E t \in DOMAIN result.value : t \notin DOMAIN current_dump.st.processed_data
    /\ \E t \in DOMAIN result.value :
          /\ result.value[t].num_deleted_objects > 0
          /\ result.value[t].total_size_main < 0
          /\ result.value[t].size_percent_change.num # 0

\* two object records differ in some field
FieldsDiffer(a, b) ==
    \/ DOMAIN a.m # DOMAIN b.m
    \/ \E k \in DOMAIN a.m \cap DOMAIN b.m : a.m[k] # b.m[k]

\* C8: get_object_statuses gives a status to exactly the ids of the union of
\* the two stores' ids of the type: Deleted iff only in main, New iff only
\* in other, Old iff in both with equal records, Modified iff in both with
\* records that differ in some field; the four status sets partition the
\* union.
C8_StatusPartition ==
    result.op = "get_object_statuses" =>
        LET main == current_dump.st
            other == comparison_dump.st
            t == result.obj_type
            r == result.value
            A == IdsOf(main, t)
            B == IdsOf(other, t)
            With(s) == {i \in DOMAIN r : r[i] = s}
        IN /\ DOMAIN r = A \cup B
           /\ With("Deleted") = A \ B
           /\ With("New") = B \ A
           /\ With("Old") = {i \in A \cap B :
                  ~FieldsDiffer(main.data.m[t].m[i], other.data.m[t].m[i])}
           /\ With("Modified") = {i \in A \cap B :
                  FieldsDiffer(main.data.m[t].m[i], other.data.m[t].m[i])}
           /\ With("Deleted") \cup With("New") \cup With("Old")
                  \cup With("Modified") = A \cup B

\* statuses with an object modified in its attributes only, and a new one
C8_Witness ==
    /\ result.op = "get_object_statuses"
    /\ \E i \in DOMAIN result.value :
          /\ result.value[i] = "Modified"
          /\ GetSize(current_dump.st.data.m[result.obj_type].m[i])
                = GetSize(comparison_dump.st.data.m[result.obj_type].m[i])
    /\ \E i \in DOMAIN result.value : result.value[i] = "New"

\* ---------------------------------------------------------------------
\* Properties of the main window
\* ---------------------------------------------------------------------
\* the handlers that load a dump
LoadHandlers ==
    {"handle_load_dump", "handle_compare_dumps", "load_dump_from_path"}

\* the last handler was a load that failed with a fatal kind
FailedLoadHandled ==
    lastv.handler \in LoadHandlers /\ lastv.outcome \in FatalKinds

\* C6: after handle_load_dump, handle_compare_dumps or load_dump_from_path
\* failed with a fatal kind, current_dump and comparison_dump hold what they
\* held before the attempt, and no compare, chart or export control is
\* enabled that was not enabled before it.
C6_FailedStoreUnconstructed ==
    FailedLoadHandled =>
        /\ current_dump = lastv.before_current
        /\ comparison_dump = lastv.before_comparison
        /\ \A b \in {"compare", "chart", "export", "actions"} :
              buttons[b] => lastv.before_buttons[b]

\* the type passes the size range of the arguments
PassesSize(st, t, a) ==
    /\ a.min_size.some => st.processed_data[t].total_size >= a.min_size.n
    /\ a.max_size.some => st.processed_data[t].total_size <= a.max_size.n

\* the type is the selected one, when one is selected
PassesType(t, a) == a.obj_type = "" \/ t = a.obj_type

\* an object of the type matches the search, when a search is given
PassesSearch(st, t, a) ==
    \/ a.search_id = "" /\ a.search_attr = ""
    \/ \E i \in DOMAIN st.processed_data[t].objects :
          Matches(i, st.processed_data[t].objects[i], a.search_id, a.search_attr)

\* in comparison mode, a requested status holds for the type
PassesStatus(st, cmp, t, a) ==
    \/ ~Truthy(cmp)
    \/ a.status_filter = <<>>
    \/ StatusIncludes(compare_with(st, cmp.st)[t], a.status_filter)

\* C10: the mapping handle_apply_filters builds contains a type only if the
\* type passes every active filter: size range, selected type, id/attribute
\* search and, in comparison mode, the status list.
C10_FiltersAreConjunctive ==
    lastv.handler = "handle_apply_filters" =>
        \A t \in DOMAIN lastv.filtered_data :
            /\ t \in DOMAIN current_dump.st.processed_data
            /\ PassesSize(current_dump.st, t, lastv.args)
            /\ PassesType(t, lastv.args)
            /\ PassesSearch(current_dump.st, t, lastv.args)
            /\ PassesStatus(current_dump.st, comparison_dump, t, lastv.args)

\* the reference holds a store that a load filled: its data is a non-empty
\* dump and every type of it has its aggregate
HoldsLoaded(ref) ==
    /\ Truthy(ref)
    /\ WellShaped(ref.st.data)
    /\ ref.st.data.m # EmptyMap
    /\ DOMAIN ref.st.processed_data = DOMAIN ref.st.data.m

\* C11: in comparison mode (both dumps loaded), the rows displayed after
\* handle_apply_filters are exactly the types of the filtered mapping it
\* computed, each with its comparison entry.
C11_RowsAreFilteredTypes ==
    (/\ lastv.handler = "handle_apply_filters"
     /\ HoldsLoaded(current_dump)
     /\ HoldsLoaded(comparison_dump)) =>
        /\ DOMAIN table.rows = DOMAIN lastv.filtered_data
        /\ \A t \in DOMAIN table.rows :
              table.rows[t] = compare_with(current_dump.st, comparison_dump.st)[t]

\* ---------------------------------------------------------------------
\* The queries on loaded stores
\* ---------------------------------------------------------------------
\* an object record with a size and an attr field of any JSON value;
\* validate_dump_structure does not look at attr
ObjAttrRaw(sz, attr) ==
    Obj([k \in {"size", "attr"} |-> IF k = "size" THEN sz ELSE attr])

\* the object records of the stores that are queried: without size, of
\* size MaxSize, with a text attribute, with a numeric attribute, and with
\* an attr that is a list
QueryObjects ==
    {ObjNoSize, ObjSized(JNum(MaxSize)),
     ObjAttr(JNum(1), "name", JStr("a")),
     ObjAttr(JNum(1), "count", JNum(12)),
     ObjAttrRaw(JNum(1), JList)}

\* the dumps that are queried: type Foo with any objects "1" and "12" of
\* QueryObjects, type Bar empty or with the one object "1" of size 1, and
\* either type absent
QueryDumps ==
    {JDict([t \in S |-> IF t = "Foo" THEN foo ELSE bar]) :
        S \in (SUBSET Types) \ {{}},
        foo \in {JDict(o) : o \in MapsOver({"1", "12"}, QueryObjects)},
        bar \in {JDict(o) : o \in MapsOver({"1"}, {ObjSized(JNum(1))})}}

\* the dumps they are compared with
OtherDumps ==
    {JDict([t \in {"Foo"} |-> JDict([i \in {"1"} |-> ObjSized(JNum(1))])]),
     JDict([t \in {"Foo", "Bar"} |->
              IF t = "Bar" THEN JDict([i \in {"1"} |-> ObjSized(JNum(1))])
              ELSE JDict([i \in {"1", "12"} |->
                            IF i = "1" THEN ObjAttr(JNum(1), "name", JStr("a"))
                            ELSE ObjSized(JNum(MaxSize))])])}

\* a main store and another store, each loaded from a dump
InitQuery ==
    /\ file = Missing
    /\ StoreInit
    /\ current_dump \in {Ref(LoadedStore(d)) : d \in QueryDumps}
    /\ comparison_dump \in {Ref(LoadedStore(d)) : d \in OtherDumps}
    /\ buttons = InitButtons
    /\ table = NoTable
    /\ lastv = NoHandler
    /\ details = NoDetails
    /\ result = NoResult

\* the size bounds of the queries
SizeBounds == {None, Some(0), Some(MaxSize)}

\* current_dump.filter_by_size(min_size, max_size)
FilterBySize ==
    /\ \E min_size \in SizeBounds, max_size \in SizeBounds :
          result' = [op |-> "filter_by_size", min_size |-> min_size,
                     max_size |-> max_size, exc |-> "none",
                     value |-> filter_by_size(current_dump.st, min_size, max_size)]
    /\ UNCHANGED <<loadVars, viewVars>>

\* the lists of type names of the queries
TypeLists ==
    {<<>>, <<"Foo">>, <<"Bar">>, <<NoSuchType>>, <<"Foo", "Foo">>,
     <<"Foo", "Bar">>, <<"Bar", "Foo">>, <<"Foo", NoSuchType>>}

\* current_dump.filter_by_type(obj_types)
FilterByType ==
    /\ \E obj_types \in TypeLists :
          result' = [op |-> "filter_by_type", obj_types |-> obj_types,
                     exc |-> "none",
                     value |-> filter_by_type(current_dump.st, obj_types)]
    /\ UNCHANGED <<loadVars, viewVars>>

\* a search that empties the store it searched
SearchObjects_consuming ==
    /\ \E obj_type \in Types \cup {NoSuchType},
          search_id \in {"", "1", "2"},
          search_attr_value \in {"", "a", "2"},
          search_in_types \in BOOLEAN :
          LET r == search_objects(current_dump.st, obj_type, search_id,
                                  search_attr_value, search_in_types)
          IN /\ result' = [op |-> "search_objects", obj_type |-> obj_type,
                           search_id |-> search_id,
                           search_attr_value |-> search_attr_value,
                           search_in_types |-> search_in_types,
                           exc |-> r.exc, value |-> r.value]
             /\ current_dump' =
                   IF r.exc = "none" /\ r.value # EmptyMap
                   THEN Ref([current_dump.st EXCEPT !.processed_data = EmptyMap])
                   ELSE current_dump
    /\ UNCHANGED <<loadVars, comparison_dump, buttons, table, lastv, details>>

\* current_dump.search_objects(obj_type, search_id, search_attr_value,
\* search_in_types); "" stands for a search string that is not given
SearchObjects ==
    /\ \E obj_type \in Types \cup {NoSuchType},
          search_id \in {"", "1", "2"},
          search_attr_value \in {"", "a", "2"},
          search_in_types \in BOOLEAN :
          LET r == search_objects(current_dump.st, obj_type, search_id,
                                  search_attr_value, search_in_types)
          IN result' = [op |-> "search_objects", obj_type |-> obj_type,
                        search_id |-> search_id,
                        search_attr_value |-> search_attr_value,
                        search_in_types |-> search_in_types,
                        exc |-> r.exc, value |-> r.value]
    /\ UNCHANGED <<loadVars, viewVars>>

\* the statuses and the status lists of the queries
Statuses == {"New", "Deleted", "Old", "Modified"}
StatusLists == UNION {[1..n -> Statuses] : n \in 0..2}

\* current_dump.filter_comparison_by_status(comparison_result,
\* status_filter) on the result of compare_with
FilterComparisonByStatus ==
    /\ \E status_filter \in StatusLists :
          LET comparison_result ==
                  compare_with(current_dump.st, comparison_dump.st)
          IN result' = [op |-> "filter_comparison_by_status",
                        comparison_result |-> comparison_result,
                        status_filter |-> status_filter, exc |-> "none",
                        value |-> filter_comparison_by_status(comparison_result,
                                                              status_filter)]
    /\ UNCHANGED <<loadVars, viewVars>>

NextQuery ==
    \/ CompareWith
    \/ GetObjectStatuses
    \/ FilterBySize
    \/ FilterByType
    \/ SearchObjects
    \/ FilterComparisonByStatus

SpecQuery == InitQuery /\ [][NextQuery]_vars

\* ---------------------------------------------------------------------
\* Properties of the queries
\* ---------------------------------------------------------------------
\* the literal rule of one status for a comparison entry
StatusHolds(e, status) ==
    CASE status = "New" -> e.num_new_objects > 0
      [] status = "Deleted" -> e.num_deleted_objects > 0
      [] status = "Old" -> /\ e.num_objects_main = e.num_objects_other
                           /\ e.num_new_objects = 0
                           /\ e.num_deleted_objects = 0
      [] status = "Modified" -> e.num_objects_main # e.num_objects_other

\* the statuses of a list
StatusSet(status_filter) == {status_filter[i] : i \in 1..Len(status_filter)}

\* C12: filter_comparison_by_status keeps the entry of a type, unchanged,
\* iff the status list is empty or a requested status holds for the type
\* under the literal rule; lists with the same statuses give the same result.
C12_StatusFilterLiteral ==
    result.op = "filter_comparison_by_status" =>
        LET c == result.comparison_result
            f == result.status_filter
        IN /\ DOMAIN result.value =
                 {t \in DOMAIN c :
                     f = <<>> \/ \E st \in StatusSet(f) : StatusHolds(c[t], st)}
           /\ \A t \in DOMAIN result.value : result.value[t] = c[t]
           /\ \A g \in StatusLists :
                 StatusSet(g) = StatusSet(f) =>
                     filter_comparison_by_status(c, g) = result.value

\* a list of two statuses of which only the second holds for a type that is
\* kept, while another type is dropped
C12_Witness ==
    /\ result.op = "filter_comparison_by_status"
    /\ Len(result.status_filter) = 2
    /\ \E t \in DOMAIN result.value :
          /\ ~StatusHolds(result.comparison_result[t], result.status_filter[1])
          /\ StatusHolds(result.comparison_result[t], result.status_filter[2])
    /\ DOMAIN result.value # DOMAIN result.comparison_result

\* the attribute values of an object record
AttrValues(obj) ==
    IF "attr" \in DOMAIN obj.m /\ IsDict(obj.m["attr"])
    THEN {obj.m["attr"].m[a] : a \in DOMAIN obj.m["attr"].m}
    ELSE {}

\* the ids of the objects of a type that a search is to keep: the id
\* contains search_id when given, and some attribute value, as text,
\* contains search_attr_value when given
Kept(st, t, search_id, search_attr_value) ==
    {i \in IdsOf(st, t) :
        /\ search_id = "" \/ IsSubstr(Chars(search_id), Chars(i))
        /\ \/ search_attr_value = ""
           \/ \E v \in AttrValues(st.data.m[t].m[i]) :
                 IsSubstr(Chars(search_attr_value), PyStr(v))}

\* the objects a search result holds for the type it is filed under
Found(value, obj_type) ==
    IF obj_type \in DOMAIN value THEN value[obj_type].objects ELSE EmptyMap

\* C13: search_objects on a single type keeps exactly the objects of the
\* type whose id contains search_id (when given) and one of whose attribute
\* values, as text, contains search_attr_value (when given); num_objects and
\* total_size of the result are those of the kept objects.
C13_SearchOneType ==
    (result.op = "search_objects" /\ ~result.search_in_types) =>
        LET st == current_dump.st
            t == result.obj_type
            kept == Kept(st, t, result.search_id, result.search_attr_value)
        IN /\ result.exc = "none"
           /\ DOMAIN Found(result.value, t) = kept
           /\ \A i \in kept : result.value[t].objects[i] = st.data.m[t].m[i]
           /\ kept # {} =>
                 /\ result.value[t].num_objects = Cardinality(kept)
                 /\ result.value[t].total_size =
                       SumOver(kept, [i \in kept |-> SizeOrZero(st.data.m[t].m[i])])

\* the main store has no object whose attr is not a mapping
AttrsAreMappings(st) ==
    \A t \in DOMAIN st.data.m : \A i \in DOMAIN st.data.m[t].m :
        "attr" \in DOMAIN st.data.m[t].m[i].m => IsDict(st.data.m[t].m[i].m["attr"])

\* C13 on the stores all of whose attr fields are mappings
C13_OnMappingAttrs ==
    AttrsAreMappings(current_dump.st) => C13_SearchOneType

\* C14: search_objects over all types counts every matching object of every
\* type: num_objects is the number of (type, id) pairs that match and
\* total_size the sum of their sizes.
C14_SearchAllTypes ==
    (result.op = "search_objects" /\ result.search_in_types) =>
        LET st == current_dump.st
            pairs == {p \in (DOMAIN st.data.m) \X Ids :
                         p[2] \in Kept(st, p[1], result.search_id,
                                       result.search_attr_value)}
            agg == result.value[result.obj_type]
        IN /\ result.exc = "none"
           /\ agg.num_objects = Cardinality(pairs)
           /\ agg.total_size =
                 SumOver(pairs,
                         [p \in pairs |-> SizeOrZero(st.data.m[p[1]].m[p[2]])])

\* C14 on the stores all of whose attr fields are mappings
C14_OnMappingAttrs ==
    AttrsAreMappings(current_dump.st) => C14_SearchAllTypes

\* C15: no query changes a store: data, processed_data, total_objects and
\* total_size of the main store and of the other store stay what they were.
C15_QueriesLeaveStores ==
    [][current_dump' = current_dump /\ comparison_dump' = comparison_dump]_vars

\* a search that returned objects of the main store
C15_Witness ==
    /\ result.op = "search_objects"
    /\ result.exc = "none"
    /\ result.value # EmptyMap
    /\ \E t \in DOMAIN result.value : result.value[t].num_objects > 0

\* C20: on loaded stores no query fails: filter_by_size, filter_by_type,
\* search_objects and filter_comparison_by_status return a mapping for every
\* argument, compare_with an entry for every type of either store, and
\* get_object_statuses a mapping, empty for a type neither store has.
C20_QueriesNeverFail ==
    /\ result.op \in {"filter_by_size", "filter_by_type", "search_objects",
                      "filter_comparison_by_status"} => result.exc = "none"
    /\ result.op = "compare_with" =>
          DOMAIN result.value =
              DOMAIN current_dump.st.data.m \cup DOMAIN comparison_dump.st.data.m
    /\ result.op = "get_object_statuses" =>
          DOMAIN result.value =
              IdsOf(current_dump.st, result.obj_type)
                  \cup IdsOf(comparison_dump.st, result.obj_type)

\* C18: for two stores A and B and every type present in both, size_change
\* of A.compare_with(B) is the negation of size_change of B.compare_with(A).
C18_SizeChangeSymmetry ==
    result.op = "compare_with" =>
        LET back == compare_with(comparison_dump.st, current_dump.st)
        IN \A t \in DOMAIN current_dump.st.processed_data
                      \cap DOMAIN comparison_dump.st.processed_data :
              result.value[t].size_change = 0 - back[t].size_change

\* a comparison with a type of both stores that shrinks
C18_Witness ==
    /\ result.op = "compare_with"
    /\ \E t \in DOMAIN current_dump.st.processed_data
                  \cap DOMAIN comparison_dump.st.processed_data :
          result.value[t].size_change < 0

\* C19: whenever total_size_main of a type is 0, compare_with reports
\* size_percent_change = 0 for it, without a division by zero, whatever
\* total_size_other is.
C19_ZeroMainGivesZeroPercent ==
    result.op = "compare_with" =>
        \A t \in DOMAIN result.value :
            result.value[t].total_size_main = 0 =>
                /\ result.value[t].size_percent_change.den # 0
                /\ result.value[t].size_percent_change.num = 0

\* a comparison with a type that only the other store has and a type whose
\* main objects sum to 0, both with a size on the other side
C19_Witness ==
    /\ result.op = "compare_with"
    /\ \E t \in DOMAIN result.value :
          /\ t \notin DOMAIN current_dump.st.processed_data
          /\ result.value[t].total_size_other > 0
    /\ \E t \in DOMAIN current_dump.st.processed_data :
          /\ result.value[t].num_objects_main > 0
          /\ result.value[t].total_size_main = 0
          /\ result.value[t].total_size_other # 0

\* ---------------------------------------------------------------------
\* Background loads of one store that overlap
\* ---------------------------------------------------------------------
\* the number of load_data_async calls made on the store
MaxLoads == 2

\* the files of the store whose loads overlap
OverlapFiles ==
    {Missing,
     Content(SlotDump({<<"Foo", "12">>})),
     Content(SlotDump({<<"Foo", "1">>, <<"Bar", "1">>}))}

InitOverlap ==
    /\ file \in OverlapFiles
    /\ StoreInit
    /\ ViewInit
    /\ result = NoResult

\* HeapDumpModel.load_data_async: start one more background thread, whatever
\* the earlier ones are doing, and keep only it in _loading_thread
StartLoadAsync ==
    /\ Len(threads) < MaxLoads
    /\ threads' = Append(threads, [pc |-> "open", buf |-> Missing, todo |-> <<>>])
    /\ loading_thread' = TRUE
    /\ last' = [NoLoad EXCEPT !.path = "async", !.outcome = "running",
                              !.reported = "pending"]
    /\ UNCHANGED <<file, store, thread, viewVars, result, progress>>

\* _load_in_background of thread i: open the file and read it
LoaderRead ==
    /\ \E i \in 1..Len(threads) :
          /\ threads[i].pc = "open"
          /\ threads' = IF file = Missing
                        THEN [threads EXCEPT ![i].pc = "dead"]
                        ELSE [threads EXCEPT ![i].pc = "parse", ![i].buf = file]
    /\ UNCHANGED <<file, store, loading_thread, thread, last, viewVars, result, progress>>

\* _load_in_background of thread i: self.data = orjson.loads(json_data)
LoaderParse ==
    /\ \E i \in 1..Len(threads) :
          /\ threads[i].pc = "parse"
          /\ IF threads[i].buf = BadJson
             THEN /\ threads' = [threads EXCEPT ![i].pc = "dead"]
                  /\ store' = store
             ELSE /\ threads' = [threads EXCEPT ![i].pc = "reset"]
                  /\ store' = [store EXCEPT !.data = threads[i].buf.v]
    /\ UNCHANGED <<file, loading_thread, thread, last, viewVars, result, progress>>

\* process_data of thread i begins: the aggregates are reset and the loop
\* starts over the dict self.data references now
LoaderReset ==
    /\ \E i \in 1..Len(threads) :
          /\ threads[i].pc = "reset"
          /\ store' = process_reset(store)
          /\ threads' = IF ~IsDict(store.data)
                        THEN [threads EXCEPT ![i].pc = "dead"]
                        ELSE [threads EXCEPT ![i].pc = "types",
                                             ![i].buf = Content(store.data),
                                             ![i].todo = TypeKeys(store.data.m)]
    /\ UNCHANGED <<file, loading_thread, thread, last, viewVars, result, progress>>

\* one iteration of the loop of process_data in thread i, over the dict the
\* loop started on, adding to the aggregates as they are now
LoaderType ==
    /\ \E i \in 1..Len(threads) :
          /\ threads[i].pc = "types"
          /\ threads[i].todo # <<>>
          /\ LET r == process_type([store EXCEPT !.data = threads[i].buf.v],
                                   Head(threads[i].todo))
             IN /\ store' = [r.store EXCEPT !.data = store.data]
                /\ threads' = IF r.exc # "none"
                              THEN [threads EXCEPT ![i].pc = "dead"]
                              ELSE [threads EXCEPT ![i].todo = Tail(threads[i].todo)]
    /\ UNCHANGED <<file, loading_thread, thread, last, viewVars, result, progress>>

\* process_data of thread i returned
LoaderFinish ==
    /\ \E i \in 1..Len(threads) :
          /\ threads[i].pc = "types"
          /\ threads[i].todo = <<>>
          /\ threads' = [threads EXCEPT ![i].pc = "done"]
    /\ UNCHANGED <<file, store, loading_thread, thread, last, viewVars, result, progress>>

\* HeapDumpModel.wait_for_loading returns: the thread _loading_thread
\* references, the one started last, is not alive (any more)
AwaitLoading ==
    /\ loading_thread => ~Alive(threads[Len(threads)])
    /\ loading_thread' = FALSE
    /\ last' = [last EXCEPT !.reported = "returned"]
    /\ UNCHANGED <<file, store, thread, threads, viewVars, result, progress>>

NextOverlap ==
    \/ StartLoadAsync
    \/ LoaderRead
    \/ LoaderParse
    \/ LoaderReset
    \/ LoaderType
    \/ LoaderFinish
    \/ AwaitLoading

SpecOverlap == InitOverlap /\ [][NextOverlap]_vars

\* the threads of the store that are running
Running == {i \in 1..Len(threads) : Alive(threads[i])}

\* C16: at most one background load of a store is running at any time,
\* whatever load_data_async calls are made on it.
C16_OneLoadInFlight == Cardinality(Running) <= 1

\* processed_data and the totals are the aggregates of all of data
AggregatesComplete(st) ==
    /\ IsDict(st.data)
    /\ DOMAIN st.processed_data = DOMAIN st.data.m
    /\ \A t \in DOMAIN st.processed_data :
          /\ st.processed_data[t].num_objects = Cardinality(DOMAIN st.data.m[t].m)
          /\ st.processed_data[t].total_size = SizeSum(st.data.m[t].m)
    /\ st.total_objects =
          SumOver(DOMAIN st.data.m,
                  [t \in DOMAIN st.data.m |-> Cardinality(DOMAIN st.data.m[t].m)])
    /\ st.total_size =
          SumOver(DOMAIN st.data.m,
                  [t \in DOMAIN st.data.m |-> SizeSum(st.data.m[t].m)])

\* C17: once wait_for_loading has returned, no background load of the store
\* is running and processed_data, total_objects and total_size are the
\* complete aggregates of data, however many load_data_async calls came
\* before the wait.
C17_AwaitedStoreIsComplete ==
    (last.path = "async" /\ last.reported = "returned") =>
        /\ Running = {}
        /\ AggregatesComplete(store)

\* C17 once every thread has ended
C17_WhenAllLoadsEnded ==
    (last.path = "async" /\ last.reported = "returned" /\ Running = {}) =>
        AggregatesComplete(store)

\* ---------------------------------------------------------------------
\* A worked comparison: two dumps of the one type Foo
\* ---------------------------------------------------------------------
\* the object sizes of the worked comparison
ExampleSizes == {50, 100, 150, 200}

\* the dump {Foo: {1: {size: 100}, 2: {size: 200}}}
ExampleA ==
    JDict("Foo" :> JDict("1" :> ObjSized(JNum(100)) @@ "2" :> ObjSized(JNum(200))))

\* the dump {Foo: {1: {size: 150}, 3: {size: 50}}}
ExampleB ==
    JDict("Foo" :> JDict("1" :> ObjSized(JNum(150)) @@ "3" :> ObjSized(JNum(50))))

\* the dumps of type Foo over the given ids with objects of ExampleSizes
ExampleDumps(ids) ==
    {JDict("Foo" :> JDict(o)) : o \in
        MapsOver(ids, {ObjSized(JNum(n)) : n \in ExampleSizes})}

\* a main store over the ids 1 and 2, another store over the ids 1 and 3
InitExample ==
    /\ file = Missing
    /\ StoreInit
    /\ current_dump \in {Ref(LoadedStore(d)) : d \in ExampleDumps({"1", "2"})}
    /\ comparison_dump \in {Ref(LoadedStore(d)) : d \in ExampleDumps({"1", "3"})}
    /\ buttons = InitButtons
    /\ table = NoTable
    /\ lastv = NoHandler
    /\ details = NoDetails
    /\ result = NoResult

NextExample ==
    \/ CompareWith
    \/ GetObjectStatuses

SpecExample == InitExample /\ [][NextExample]_vars

\* the stores hold the dumps A (main) and B (other) of the worked comparison
HoldsExample ==
    /\ current_dump = Ref(LoadedStore(ExampleA))
    /\ comparison_dump = Ref(LoadedStore(ExampleB))

\* C21: with A = {Foo: {1: size 100, 2: size 200}} and B = {Foo: {1: size
\* 150, 3: size 50}}, A.compare_with(B) has for Foo 2 main and 2 other
\* objects, 0 new and 0 deleted objects, total sizes 300 and 200, size
\* change -100 and percent change -100/300*100; and
\* A.get_object_statuses(Foo, B) is {1: Modified, 2: Deleted, 3: New}
C21_WorkedComparison ==
    HoldsExample =>
        /\ result.op = "compare_with" =>
              /\ DOMAIN result.value = {"Foo"}
              /\ LET e == result.value["Foo"]
                 IN /\ e.num_objects_main = 2
                    /\ e.num_objects_other = 2
                    /\ e.num_new_objects = 0
                    /\ e.num_deleted_objects = 0
                    /\ e.total_size_main = 300
                    /\ e.total_size_other = 200
                    /\ e.size_change = -100
                    /\ RatEq(e.size_percent_change, Frac(-100 * 100, 300))
        /\ (result.op = "get_object_statuses" /\ result.obj_type = "Foo") =>
              result.value = ("1" :> "Modified" @@ "2" :> "Deleted" @@ "3" :> "New")

\* A was compared with B
C21_Witness ==
    /\ HoldsExample
    /\ result.op = "compare_with"
    /\ result.value["Foo"].size_change = -100

\* ---------------------------------------------------------------------
\* process_data called again on a store
\* ---------------------------------------------------------------------
\* the caller invokes store.process_data() on the data the store holds;
\* again records that the call before it on this data was process_data too
ProcessData ==
    /\ LET r == process_data(store)
       IN /\ store' = r.store
          /\ last' = [path |-> "process_data", input |-> last.input,
                      before |-> store, outcome |-> OutcomeOf(r.exc),
                      reported |-> IF r.exc = "none" THEN "returned" ELSE r.exc,
                      started |-> TRUE, on |-> store.data,
                      warnings |-> {},
                      again |-> last.started /\ last.on = store.data]
    /\ UNCHANGED <<file, loading_thread, thread, viewVars, result, threads, progress>>

NextProcess ==
    \/ LoadData
    \/ ProcessData

SpecProcess == InitLoad /\ [][NextProcess]_vars

\* C22: process_data called a second time in a row on the same raw data
\* leaves processed_data, total_objects and total_size as the first call
\* left them: each call starts from empty aggregates
C22_ProcessDataIdempotent ==
    (last.path = "process_data" /\ last.again) =>
        /\ store.processed_data = last.before.processed_data
        /\ store.total_objects = last.before.total_objects
        /\ store.total_size = last.before.total_size

\* a store with two objects of non-zero size was processed a second time
C22_Witness ==
    /\ last.path = "process_data"
    /\ last.again
    /\ last.outcome = "ok"
    /\ store.total_objects = 2
    /\ store.total_size > 0

\* ---------------------------------------------------------------------
\* Properties of the two filters of a store
\* ---------------------------------------------------------------------
\* the size lies in the range; a bound that is None is no limit
InRange(size, min_size, max_size) ==
    /\ min_size.some => min_size.n <= size
    /\ max_size.some => size <= max_size.n

\* C23: filter_by_size and filter_by_type commute: the result of the size
\* filter restricted to the types the type filter returns, and the result
\* of the type filter restricted to the types the size filter returns,
\* have the same types with the same aggregates, for every type list
C23_FiltersCommute ==
    result.op = "filter_by_size" =>
        \A obj_types \in TypeLists :
            LET by_size == result.value
                by_type == filter_by_type(current_dump.st, obj_types)
            IN /\ Restrict(by_size, DOMAIN by_type) = Restrict(by_type, DOMAIN by_size)
               /\ DOMAIN Restrict(by_size, DOMAIN by_type) =
                     {t \in DOMAIN current_dump.st.processed_data :
                        /\ InList(t, obj_types)
                        /\ InRange(SizeOfType(current_dump.st, t),
                                   result.min_size, result.max_size)}

\* a size filter kept one of the two types of a store with objects
C23_Witness ==
    /\ result.op = "filter_by_size"
    /\ DOMAIN current_dump.st.processed_data = Types
    /\ DOMAIN result.value = {"Foo"}
    /\ result.value["Foo"].objects # EmptyMap

\* C24: filter_by_size(min_size, max_size) returns exactly the types whose
\* total size lies in the inclusive range, a bound that is None being no
\* limit, each with the aggregate the store holds for it
C24_SizeFilterInclusive ==
    result.op = "filter_by_size" =>
        LET st == current_dump.st
        IN /\ DOMAIN result.value =
                 {t \in DOMAIN st.processed_data :
                    InRange(SizeOfType(st, t), result.min_size, result.max_size)}
           /\ \A t \in DOMAIN result.value : result.value[t] = st.processed_data[t]

\* a type whose total size equals both bounds was kept, another one dropped
C24_Witness ==
    /\ result.op = "filter_by_size"
    /\ result.min_size = Some(MaxSize)
    /\ result.max_size = Some(MaxSize)
    /\ DOMAIN current_dump.st.processed_data = Types
    /\ DOMAIN result.value = {"Foo"}
    /\ result.value["Foo"].total_size = MaxSize

\* the names of a list
NamesOf(lst) == {lst[i] : i \in 1..Len(lst)}

\* C25: filter_by_type(obj_types) returns exactly the types that are named
\* in the list and exist in the store, each with the aggregate the store
\* holds for it: unknown names are left out, repeated names change nothing
C25_TypeFilterExact ==
    result.op = "filter_by_type" =>
        LET st == current_dump.st
        IN /\ DOMAIN result.value = NamesOf(result.obj_types) \cap DOMAIN st.data.m
           /\ \A t \in DOMAIN result.value : result.value[t] = st.processed_data[t]

\* both types were asked of a store that holds both
C25_Witness ==
    /\ result.op = "filter_by_type"
    /\ result.obj_types = <<"Bar", "Foo">>
    /\ DOMAIN result.value = Types

\* an unknown name was left out
C25_UnknownNameOmitted ==
    /\ result.op = "filter_by_type"
    /\ result.obj_types = <<"Foo", NoSuchType>>
    /\ DOMAIN result.value = {"Foo"}

\* ---------------------------------------------------------------------
\* Object statuses against comparison entries
\* ---------------------------------------------------------------------
\* the ids that a status mapping gives the status
WithStatus(statuses, status) == {i \in DOMAIN statuses : statuses[i] = status}

\* C26: for every type, the number of ids get_object_statuses marks New
\* minus the number it marks Deleted is num_objects_other minus
\* num_objects_main of the compare_with entry; so num_new_objects is at
\* most the number of New ids, num_deleted_objects at most the number of
\* Deleted ids, and the two are never both positive
C26_StatusCountsMatchEntry ==
    result.op = "get_object_statuses" =>
        LET entries == compare_with(current_dump.st, comparison_dump.st)
            new == Cardinality(WithStatus(result.value, "New"))
            deleted == Cardinality(WithStatus(result.value, "Deleted"))
        IN IF result.obj_type \in DOMAIN entries
           THEN LET e == entries[result.obj_type]
                IN /\ new - deleted = e.num_objects_other - e.num_objects_main
                   /\ e.num_new_objects <= new
                   /\ e.num_deleted_objects <= deleted
                   /\ ~(e.num_new_objects > 0 /\ e.num_deleted_objects > 0)
           ELSE result.value = EmptyMap

\* a type with one New and one Deleted id, so that the entry counts no new
\* and no deleted object
C26_Witness ==
    /\ result.op = "get_object_statuses"
    /\ Cardinality(WithStatus(result.value, "New")) = 1
    /\ Cardinality(WithStatus(result.value, "Deleted")) = 1
    /\ compare_with(current_dump.st, comparison_dump.st)[result.obj_type].num_new_objects = 0

\* a type with more New ids than Deleted ones
C26_MoreNewThanDeleted ==
    /\ result.op = "get_object_statuses"
    /\ Cardinality(WithStatus(result.value, "New")) = 2
    /\ compare_with(current_dump.st, comparison_dump.st)[result.obj_type].num_new_objects = 2

\* the status with New and Deleted exchanged
SwapStatus(status) ==
    IF status = "New" THEN "Deleted"
    ELSE IF status = "Deleted" THEN "New"
    ELSE status

\* C27: exchanging the two stores exchanges New and Deleted in
\* get_object_statuses and leaves Old and Modified; and num_new_objects of
\* A.compare_with(B) is num_deleted_objects of B.compare_with(A)
C27_SwapExchangesNewDeleted ==
    /\ result.op = "get_object_statuses" =>
          LET swapped == get_object_statuses(comparison_dump.st, result.obj_type,
                                             current_dump.st)
          IN /\ DOMAIN swapped = DOMAIN result.value
             /\ \A i \in DOMAIN result.value : swapped[i] = SwapStatus(result.value[i])
    /\ result.op = "compare_with" =>
          LET swapped == compare_with(comparison_dump.st, current_dump.st)
          IN /\ DOMAIN swapped = DOMAIN result.value
             /\ \A t \in DOMAIN result.value :
                   /\ result.value[t].num_new_objects = swapped[t].num_deleted_objects
                   /\ result.value[t].num_deleted_objects = swapped[t].num_new_objects

\* a type with a New and a Modified id
C27_Witness ==
    /\ result.op = "get_object_statuses"
    /\ WithStatus(result.value, "New") # {}
    /\ WithStatus(result.value, "Modified") # {}

\* ---------------------------------------------------------------------
\* The object details window and its lazily loaded table
\* ---------------------------------------------------------------------
\* the rows one lazy_load_objects call of the window fetches (limit=100 in
\* the code), scaled so that a type can have more objects than that
LazyLimit == 2

\* an object record with a size and a ref field of any JSON value
ObjRefRaw(sz, ref) ==
    Obj([k \in {"size", "ref"} |-> IF k = "size" THEN sz ELSE ref])

\* int(value) raises for the text s: s is not a decimal number
NotAnInt(s) ==
    \/ Chars(s) = <<>>
    \/ \E i \in 1..Len(Chars(s)) :
          Chars(s)[i] \notin {"0", "1", "2", "3", "4", "5", "6", "7", "8", "9"}

\* lazy_load_objects, building the items of one row raises: int_or_none of
\* a size that is a non-numeric text, or len() of a ref or attr that is a
\* number
RowRaises(obj_data) ==
    \/ /\ "size" \in DOMAIN obj_data.m
       /\ obj_data.m["size"].t = "str"
       /\ obj_data.m["size"].s # ""
       /\ NotAnInt(obj_data.m["size"].s)
    \/ /\ "ref" \in DOMAIN obj_data.m
       /\ IsNum(obj_data.m["ref"])
    \/ /\ "attr" \in DOMAIN obj_data.m
       /\ IsNum(obj_data.m["attr"])

\* ObjectDetailsWindow.lazy_load_objects, the loop over the ids that are
\* not loaded yet: it stops at the limit, and at the first object whose
\* row raises (the exception is caught and logged)
RECURSIVE lazy_load_loop(_, _, _, _)
lazy_load_loop(w, obj_ids, count, limit) ==
    IF obj_ids = <<>> \/ count >= limit THEN w
    ELSE IF RowRaises(w.objects[Head(obj_ids)]) THEN w
         ELSE lazy_load_loop([w EXCEPT !.rows = Append(@, Head(obj_ids)),
                                       !.loaded_rows = @ + 1],
                             Tail(obj_ids), count + 1, limit)

\* ObjectDetailsWindow.lazy_load_objects
lazy_load_objects(w, limit) ==
    LET keys == IdKeys(w.objects)
    IN lazy_load_loop(w, SubSeq(keys, w.loaded_rows + 1, Len(keys)), 0, limit)

\* ObjectDetailsWindow.load_all_objects
load_all_objects(w) ==
    lazy_load_objects(w, Cardinality(DOMAIN w.objects) - w.loaded_rows)

\* ObjectDetailsWindow.lazy_load_more, the scrollbar being at its maximum
lazy_load_more(w) == lazy_load_objects(w, LazyLimit)

\* ObjectDetailsWindow.__init__ and populate_table without a comparison
\* dump: the objects of the type, no rows, then the first rows
open_details(obj_type, cur) ==
    lazy_load_objects([open |-> TRUE, obj_type |-> obj_type,
                       objects |-> ObjectsOf(cur.st, obj_type),
                       loaded_rows |-> 0, rows |-> <<>>,
                       call |-> "populate_table", limit |-> LazyLimit,
                       before |-> 0],
                      LazyLimit)

\* the object records of the dumps that are shown: of size 1, and of size
\* 1 with an attr or a ref that is a number, which validation lets through
LazyObjects ==
    {ObjSized(JNum(1)), ObjAttrRaw(JNum(1), JNum(5)), ObjRefRaw(JNum(1), JNum(5))}

\* the dumps that are shown: type Foo with any of the objects, at most one
\* of them not of the plain kind
LazyDumps ==
    {JDict("Foo" :> JDict(o)) : o \in
        {m \in MapsOver(Ids, LazyObjects) :
            Cardinality({i \in DOMAIN m : m[i] # ObjSized(JNum(1))}) <= 1}}

\* a main store loaded from a dump, no comparison dump, no window yet
InitLazy ==
    /\ file = Missing
    /\ StoreInit
    /\ current_dump \in {Ref(LoadedStore(d)) : d \in LazyDumps}
    /\ comparison_dump = NoneRef
    /\ buttons = InitButtons
    /\ table = NoTable
    /\ lastv = NoHandler
    /\ details = NoDetails
    /\ result = NoResult

\* the user opens the details window of a type
OpenDetails ==
    /\ \E obj_type \in Types :
          details' = open_details(obj_type, current_dump)
    /\ UNCHANGED <<loadVars, current_dump, comparison_dump, buttons, table,
                   lastv, result>>

\* lazy_load_objects(limit) on the open window
LazyLoadObjects ==
    /\ details.open
    /\ \E limit \in 0..LazyLimit :
          details' = [lazy_load_objects(details, limit) EXCEPT
                         !.call = "lazy_load_objects", !.limit = limit,
                         !.before = details.loaded_rows]
    /\ UNCHANGED <<loadVars, current_dump, comparison_dump, buttons, table,
                   lastv, result>>

\* the user scrolls the table to its end
LazyLoadMore ==
    /\ details.open
    /\ details' = [lazy_load_more(details) EXCEPT
                      !.call = "lazy_load_more", !.limit = LazyLimit,
                      !.before = details.loaded_rows]
    /\ UNCHANGED <<loadVars, current_dump, comparison_dump, buttons, table,
                   lastv, result>>

\* the user presses Load All Objects
LoadAllObjects ==
    /\ details.open
    /\ details' = [load_all_objects(details) EXCEPT
                      !.call = "load_all_objects",
                      !.limit = Cardinality(DOMAIN details.objects)
                                    - details.loaded_rows,
                      !.before = details.loaded_rows]
    /\ UNCHANGED <<loadVars, current_dump, comparison_dump, buttons, table,
                   lastv, result>>

NextLazy ==
    \/ OpenDetails
    \/ LazyLoadObjects
    \/ LazyLoadMore
    \/ LoadAllObjects

SpecLazy == InitLazy /\ [][NextLazy]_vars

\* the ids of the objects of the window's type in the main store, in order
TypeIds == IdKeys(ObjectsOf(current_dump.st, details.obj_type))

\* what C28 says of an open window
LazyLoadingHolds ==
    /\ details.loaded_rows <= Len(TypeIds)
    /\ details.rows = SubSeq(TypeIds, 1, details.loaded_rows)
    /\ details.call \in {"lazy_load_objects", "lazy_load_more"} =>
          details.loaded_rows - details.before <= details.limit
    /\ details.call = "load_all_objects" => details.loaded_rows = Len(TypeIds)

\* C28: lazy loading never duplicates or skips an object: after any
\* lazy_load_objects, lazy_load_more and load_all_objects calls the loaded
\* rows are the first loaded_rows ids of the type in order, each once,
\* loaded_rows is at most the number of objects, one lazy_load_objects
\* call adds at most limit rows, and after load_all_objects loaded_rows is
\* the number of objects
C28_LazyLoadingComplete ==
    details.open => LazyLoadingHolds

\* no object of the window has a row that raises
RowsCanBeBuilt ==
    \A i \in DOMAIN details.objects : ~RowRaises(details.objects[i])

\* what C28 says, for the windows whose rows can all be built
C28_WhenRowsCanBeBuilt ==
    (details.open /\ RowsCanBeBuilt) => LazyLoadingHolds

\* Load All Objects loaded the rows that were left after the first ones
C28_AllLoaded ==
    /\ details.open
    /\ details.call = "load_all_objects"
    /\ details.before = LazyLimit
    /\ details.loaded_rows = Len(IdOrder)

\* ---------------------------------------------------------------------
\* A load that reports its progress
\* ---------------------------------------------------------------------
\* the bytes f.read(chunk_size) returns at most (1024 * 1024 in the code),
\* scaled so that a file takes several chunks
ChunkSize == 2
\* the longest file, in bytes
MaxBytes == 5

\* the files that are loaded with progress reports: missing, not JSON, a
\* dump that loads, a dump whose size is a text, and a dump whose type
\* holds a list
ProgressFiles ==
    {Missing, BadJson,
     Content(JDict("Foo" :> JDict("1" :> ObjSized(JNum(1))))),
     Content(JDict("Foo" :> JDict("1" :> ObjSized(JStr("x"))))),
     Content(JDict("Foo" :> JList))}

\* HeapDumpModel._load_in_background after the file was read:
\* self.data = orjson.loads(...), process_data(); nothing validates
load_in_background(st, f) ==
    IF f.k = "badjson" THEN Ran(st, "ValueError")
    ELSE process_data([st EXCEPT !.data = f.v])

\* a store constructed for a file, nothing loading yet
InitProgress ==
    /\ file \in ProgressFiles
    /\ StoreInit
    /\ ViewInit
    /\ result = NoResult

\* load_data_async(progress_callback) or ProgressWorker.load_data starts:
\* open() raises when the file is missing, else seek and tell give the
\* file size; the worker always emits, the store only with a callback
StartProgress ==
    /\ progress.pc \in {"idle", "done", "failed"}
    /\ \E path \in {"background", "worker"}, callback \in BOOLEAN,
          size \in 0..MaxBytes :
          /\ path = "worker" => callback
          /\ file.k = "json" => size > 0
          /\ progress' =
                [pc |-> IF file.k = "missing" THEN "failed" ELSE "read",
                 path |-> path, callback |-> callback,
                 file_size |-> IF file.k = "missing" THEN 0 ELSE size,
                 bytes_read |-> 0, chunks |-> 0, reports |-> <<>>,
                 processed |-> FALSE,
                 exc |-> IF file.k = "missing" THEN "FileNotFoundError" ELSE "none"]
    /\ UNCHANGED <<file, store, loading_thread, thread, last, threads,
                   viewVars, result>>

\* one round of the read loop that counts a whole chunk for every read
ReadChunk_whole_chunks ==
    /\ progress.pc = "read"
    /\ progress.bytes_read < progress.file_size
    /\ LET bytes_read == progress.bytes_read + ChunkSize
       IN progress' =
             [progress EXCEPT
                 !.bytes_read = bytes_read,
                 !.chunks = @ + 1,
                 !.reports = IF progress.callback
                             THEN Append(@, <<bytes_read, progress.file_size>>)
                             ELSE @]
    /\ UNCHANGED <<file, store, loading_thread, thread, last, threads,
                   viewVars, result>>

\* one round of the read loop: a chunk that is not empty is counted and
\* reported
ReadChunk ==
    /\ progress.pc = "read"
    /\ progress.bytes_read < progress.file_size
    /\ LET left == progress.file_size - progress.bytes_read
           len == IF left < ChunkSize THEN left ELSE ChunkSize
           bytes_read == progress.bytes_read + len
       IN progress' =
             [progress EXCEPT
                 !.bytes_read = bytes_read,
                 !.chunks = @ + 1,
                 !.reports = IF progress.callback
                             THEN Append(@, <<bytes_read, progress.file_size>>)
                             ELSE @]
    /\ UNCHANGED <<file, store, loading_thread, thread, last, threads,
                   viewVars, result>>

\* the read loop ends on the empty chunk; the content is parsed, validated
\* by the worker only, and processed
ParseAndProcess ==
    /\ progress.pc = "read"
    /\ progress.bytes_read >= progress.file_size
    /\ LET r == IF progress.path = "worker"
                THEN worker_load_data(store, file)
                ELSE load_in_background(store, file)
       IN /\ store' = r.store
          /\ progress' = [progress EXCEPT
                             !.pc = IF r.exc = "none" THEN "processed" ELSE "failed",
                             !.processed = (r.exc = "none"),
                             !.exc = r.exc]
    /\ UNCHANGED <<file, loading_thread, thread, last, threads, viewVars, result>>

\* the report after process_data returned: (file_size, file_size)
FinalReport ==
    /\ progress.pc = "processed"
    /\ progress' =
          [progress EXCEPT
              !.pc = "done",
              !.reports = IF progress.callback
                          THEN Append(@, <<progress.file_size, progress.file_size>>)
                          ELSE @]
    /\ UNCHANGED <<file, store, loading_thread, thread, last, threads,
                   viewVars, result>>

NextProgress ==
    \/ StartProgress
    \/ ReadChunk
    \/ ParseAndProcess
    \/ FinalReport

SpecProgress == InitProgress /\ [][NextProgress]_vars

LoadingFiles ==
    ViewFiles \cup
    {BadJson, Content(JDict("Foo" :> JDict("1" :> ObjSized(JStr("x")))))}

\* the user loads one of the files as the main dump
LoadAttempt == \E f \in LoadingFiles : handle_load_dump(f)

\* the user loads one of the files as the comparison dump
CompareAttempt ==
    /\ buttons.compare \/ buttons.actions
    /\ \E f \in LoadingFiles : handle_compare_dumps(f)

NextLoading ==
    \/ LoadAttempt
    \/ CompareAttempt

SpecLoading == InitView /\ [][NextLoading]_vars

\* C30: every handle_load_dump and handle_compare_dumps that called
\* show_loading has called hide_loading when it returns, whether the load
\* succeeded or failed with any exception: the progress bar is hidden and
\* the load button is enabled again after every load attempt
C30_LoadingAlwaysEnds ==
    lastv.handler \in {"handle_load_dump", "handle_compare_dumps"} =>
        /\ buttons.load
        /\ ~buttons.progress

\* a load that failed on a size that is not a number, in the except clause
\* for any other exception, left the load button enabled
C30_Witness ==
    /\ lastv.handler = "handle_load_dump"
    /\ lastv.outcome = "TypeError"
    /\ buttons.load
    /\ ~buttons.progress

====
